---- MODULE Spec2Model ----
(***************************************************************************)
(* skyTrail (src/sketch2.js): the CSV parser, the track builder and the    *)
(* post-parse finalization, as a state machine.                            *)
(*                                                                         *)
(* A JavaScript string is a sequence of one-character strings.  A          *)
(* JavaScript number is a record [k, v]: k = "num" for a finite number     *)
(* (v its value, an integer here), "nan" for NaN, "null" for null.  Every  *)
(* number the inputs of this model spell is an integer written with        *)
(* decimal digits and an optional sign, of magnitude far below the 1e9     *)
(* sentinels, so that all arithmetic of the code is exact.                 *)
(***************************************************************************)
EXTENDS Integers, Sequences, FiniteSets, TLC

VARIABLES
    \* ---- globals of sketch2.js
    rows,               \* the sample sequence
    bounds,             \* {latMin, latMax, lonMin, lonMax}
    range,              \* {altMin, altMax, spdMin, spdMax}
    startTimestampMs, endTimestampMs,
    trackDir,           \* "E", "W" or null
    actualTakeOffMs, actualLandingMs,
    actualTakeOffTime, actualLandingTime,
    selectedIdx,
    dom,                \* the text of the DOM fields the parser writes
    \* ---- the environment: file reads in flight (reader.readAsText called)
    pending,
    \* ---- the running call of parseFromCSVText
    pc,                 \* "idle" or the position inside parseFromCSVText
    text,               \* its argument
    lines,              \* const lines
    idx,                \* iPos, iAlt, iSpd, iHdg, iUtc, iTs, iCallsign
    callsignVal,
    line,               \* the loop variable of the row loop
    \* ---- the splitter taken alone (SpecSplit)
    csvLine, csvOut,
    \* ---- updateTrackDir taken alone (SpecTrack): the positions given to it
    \* ---- and the values its calls returned
    trackArgs, trackOut,
    \* ---- speedColor taken alone (SpecColor): the speed given to it and the
    \* ---- colours returned
    speedArg, speedOut,
    \* ---- the frame being drawn
    pts,                \* const { pts } of drawRosette, of the latest frame
    mouseT,             \* the pointer's fraction t of the turn, as n / d
    mouseOver,          \* the sample whose point the pointer is on, or -1
    cursorFollowMouse,  \* toggle whether cursor follows mouse
    key                 \* p5's key, the key of the latest keyboard event

vars == <<rows, bounds, range, startTimestampMs, endTimestampMs, trackDir,
          actualTakeOffMs, actualLandingMs, actualTakeOffTime, actualLandingTime,
          selectedIdx, dom, pending, pc, text, lines, idx, callsignVal, line,
          csvLine, csvOut, trackArgs, trackOut, speedArg, speedOut, pts, mouseT,
          mouseOver, cursorFollowMouse, key>>

progVars == <<rows, bounds, range, startTimestampMs, endTimestampMs, trackDir,
              actualTakeOffMs, actualLandingMs, actualTakeOffTime,
              actualLandingTime, selectedIdx, dom, pending, pc, text, lines, idx,
              callsignVal, line, pts, mouseT, mouseOver, cursorFollowMouse, key>>

\* the state of the functions taken alone
splitVars == <<csvLine, csvOut>>
trackVars == <<trackArgs, trackOut>>
speedVars == <<speedArg, speedOut>>
pureVars == <<splitVars, trackVars, speedVars>>

-----------------------------------------------------------------------------
(* Bounds of the model *)

\* longest line given to splitCSVLine in SpecSplit
MaxLineLen == 5
\* most data lines (lines after the header) of an uploaded text
MaxDataLines == 2
\* most data lines of a text of SpecFlight (its example texts apart)
MaxFlightRows == 3
\* the pointer positions of a frame: mouseT / MouseSteps of the turn
MouseSteps == 4

-----------------------------------------------------------------------------
(* Characters and JavaScript values *)

QUOTE == "\""
COMMA == ","
NL == "\n"
CR == "\r"
SP == " "

\* JavaScript's undefined (a missing array element), distinct from every string
Undefined == <<"undefined">>

NaN == [k |-> "nan", v |-> 0]
Null == [k |-> "null", v |-> 0]
Fin(n) == [k |-> "num", v |-> n]

\* Number.isFinite(x)
IsFinite(x) == x.k = "num"

\* the em dash the display shows for "none"
Dash == <<"-">>

IsWhite(c) == c \in {" ", "\t", "\r", "\n"}

\* the string without its leading white space
TrimStart(s) ==
    IF \A i \in 1..Len(s) : IsWhite(s[i]) THEN <<>>
    ELSE SubSeq(s, CHOOSE i \in 1..Len(s) :
                       ~IsWhite(s[i]) /\ \A j \in 1..(i - 1) : IsWhite(s[j]),
                Len(s))

\* the string without its trailing white space
TrimEnd(s) ==
    IF \A i \in 1..Len(s) : IsWhite(s[i]) THEN <<>>
    ELSE SubSeq(s, 1, CHOOSE i \in 1..Len(s) :
                          ~IsWhite(s[i]) /\ \A j \in (i + 1)..Len(s) : IsWhite(s[j]))

\* String.prototype.trim
Trim(s) == TrimEnd(TrimStart(s))

UpperCase == <<"A","B","C","D","E","F","G","H","I","J","K","L","M",
               "N","O","P","Q","R","S","T","U","V","W","X","Y","Z">>
LowerCase == <<"a","b","c","d","e","f","g","h","i","j","k","l","m",
               "n","o","p","q","r","s","t","u","v","w","x","y","z">>

ToLowerChar(c) ==
    IF \E i \in 1..26 : UpperCase[i] = c
    THEN LowerCase[CHOOSE i \in 1..26 : UpperCase[i] = c]
    ELSE c

\* String.prototype.toLowerCase
ToLowerCase(s) == [i \in 1..Len(s) |-> ToLowerChar(s[i])]

-----------------------------------------------------------------------------
(* splitCSVLine and unquote *)

\* the for loop of splitCSVLine: i is the 1-based position of ch
RECURSIVE SplitLoop(_, _, _, _, _)
SplitLoop(ln, i, cur, inQuotes, out) ==
    IF i > Len(ln) THEN Append(out, cur)
    ELSE IF ln[i] = QUOTE
         THEN IF inQuotes /\ i + 1 <= Len(ln) /\ ln[i + 1] = QUOTE
              THEN SplitLoop(ln, i + 2, Append(cur, QUOTE), inQuotes, out)
              ELSE SplitLoop(ln, i + 1, cur, ~inQuotes, out)
         ELSE IF ln[i] = COMMA /\ ~inQuotes
              THEN SplitLoop(ln, i + 1, <<>>, inQuotes, Append(out, cur))
              ELSE SplitLoop(ln, i + 1, Append(cur, ln[i]), inQuotes, out)

\* a splitter that forgets the quote mode: every comma separates
RECURSIVE SplitEveryComma(_, _, _, _)
SplitEveryComma(ln, i, cur, out) ==
    IF i > Len(ln) THEN Append(out, cur)
    ELSE IF ln[i] = COMMA
         THEN SplitEveryComma(ln, i + 1, <<>>, Append(out, cur))
         ELSE IF ln[i] = QUOTE
              THEN SplitEveryComma(ln, i + 1, cur, out)
              ELSE SplitEveryComma(ln, i + 1, Append(cur, ln[i]), out)

splitCSVLine_everyComma(ln) == SplitEveryComma(ln, 1, <<>>, <<>>)

splitCSVLine(ln) == SplitLoop(ln, 1, <<>>, FALSE, <<>>)

\* s.replace(/""/g, '"'): leftmost, non-overlapping
RECURSIVE ReplaceDoubledQuotes(_)
ReplaceDoubledQuotes(s) ==
    IF Len(s) >= 2 /\ s[1] = QUOTE /\ s[2] = QUOTE
    THEN <<QUOTE>> \o ReplaceDoubledQuotes(SubSeq(s, 3, Len(s)))
    ELSE IF s = <<>> THEN <<>>
         ELSE <<Head(s)>> \o ReplaceDoubledQuotes(Tail(s))

unquote(s) ==
    IF s = Undefined THEN s
    ELSE LET t == Trim(s)
         IN  IF Len(t) >= 2 /\ t[1] = QUOTE /\ t[Len(t)] = QUOTE
             THEN ReplaceDoubledQuotes(SubSeq(t, 2, Len(t) - 1))
             ELSE t

-----------------------------------------------------------------------------
(* Number(), String.prototype.split, number formatting *)

Digits == <<"0","1","2","3","4","5","6","7","8","9">>

IsDigit(c) == \E d \in 1..10 : Digits[d] = c

DigitVal(c) == (CHOOSE d \in 1..10 : Digits[d] = c) - 1

RECURSIVE DigitsValue(_)
DigitsValue(s) ==
    IF s = <<>> THEN 0
    ELSE 10 * DigitsValue(SubSeq(s, 1, Len(s) - 1)) + DigitVal(s[Len(s)])

AllDigits(s) == s # <<>> /\ \A i \in 1..Len(s) : IsDigit(s[i])

\* Number(s) for a string or undefined: white space is trimmed, the empty
\* string is 0, an optionally signed run of decimal digits is its value and
\* every other string over the model's alphabet is NaN
Number(s) ==
    IF s = Undefined THEN NaN
    ELSE LET t == Trim(s)
         IN  IF t = <<>> THEN Fin(0)
             ELSE IF AllDigits(t) THEN Fin(DigitsValue(t))
             ELSE IF Head(t) = "-" /\ AllDigits(Tail(t)) THEN Fin(0 - DigitsValue(Tail(t)))
             ELSE IF Head(t) = "+" /\ AllDigits(Tail(t)) THEN Fin(DigitsValue(Tail(t)))
             ELSE NaN

\* s.split(sep) for a one-character separator
RECURSIVE SplitOnLoop(_, _, _, _)
SplitOnLoop(s, sep, cur, out) ==
    IF s = <<>> THEN Append(out, cur)
    ELSE IF Head(s) = sep
         THEN SplitOnLoop(Tail(s), sep, <<>>, Append(out, cur))
         ELSE SplitOnLoop(Tail(s), sep, Append(cur, Head(s)), out)

SplitOn(s, sep) == SplitOnLoop(s, sep, <<>>, <<>>)

\* text.split(/\r?\n/): the k-th piece runs from after the (k-1)-th line feed
\* to before the k-th one, less a carriage return right before that line feed
LineFeeds(s) == {p \in 1..Len(s) : s[p] = NL}

NthLineFeed(s, k) ==
    CHOOSE p \in LineFeeds(s) : Cardinality({q \in LineFeeds(s) : q < p}) = k - 1

SplitLines(s) ==
    LET n == Cardinality(LineFeeds(s))
        first(k) == IF k = 1 THEN 1 ELSE NthLineFeed(s, k - 1) + 1
        last(k) ==
            IF k = n + 1 THEN Len(s)
            ELSE LET p == NthLineFeed(s, k)
                 IN  IF p - 1 >= first(k) /\ s[p - 1] = CR THEN p - 2 ELSE p - 1
    IN  [k \in 1..(n + 1) |-> SubSeq(s, first(k), last(k))]

\* .filter(l => l.trim().length)
IsNonBlank(l) == Len(Trim(l)) > 0

\* the element of a JavaScript array at 0-based index i
At(arr, i) == IF i >= 0 /\ i < Len(arr) THEN arr[i + 1] ELSE Undefined

RECURSIVE NatToString(_)
NatToString(n) ==
    IF n < 10 THEN <<Digits[n + 1]>>
    ELSE NatToString(n \div 10) \o <<Digits[(n % 10) + 1]>>

\* Number.prototype.toString of an integer
IntToString(n) == IF n < 0 THEN <<"-">> \o NatToString(0 - n) ELSE NatToString(n)

\* String(n).padStart(2, '0')
Pad2(n) ==
    LET str == IntToString(n)
    IN  IF Len(str) < 2 THEN <<"0">> \o str ELSE str

\* a / b truncated toward zero, a % b with the sign of a (JavaScript's %)
JsRem(a, b) == IF a >= 0 THEN a % b ELSE 0 - ((0 - a) % b)

\* a rendering whose minutes are not reduced modulo the hour
formatHMS_wholeMinutes(ms) ==
    IF ~IsFinite(ms) \/ ms.v < 0 THEN Dash
    ELSE LET sec == ms.v \div 1000
         IN  Pad2(sec \div 3600) \o <<":">> \o Pad2(sec \div 60) \o <<":">>
             \o Pad2(sec % 60)

formatHMS(ms) ==
    IF ~IsFinite(ms) \/ ms.v < 0 THEN Dash
    ELSE LET sec == ms.v \div 1000
             h == sec \div 3600
             m == (sec % 3600) \div 60
             s == sec % 60
         IN  Pad2(h) \o <<":">> \o Pad2(m) \o <<":">> \o Pad2(s)

\* the civil date of a day count since 1970-01-01 (what Date's UTC getters
\* compute), as <<year, month, day>>
CivilFromDays(days) ==
    LET z == days + 719468
        era == z \div 146097
        doe == z - era * 146097
        yoe == (doe - doe \div 1460 + doe \div 36524 - doe \div 146096) \div 365
        doy == doe - (365 * yoe + yoe \div 4 - yoe \div 100)
        mp == (5 * doy + 2) \div 153
        d == doy - (153 * mp + 2) \div 5 + 1
        m == IF mp < 10 THEN mp + 3 ELSE mp - 9
        y == yoe + era * 400 + (IF m <= 2 THEN 1 ELSE 0)
    IN  <<y, m, d>>

\* formatUTC(ms) of a finite ms
formatUTC(ms) ==
    LET sec == ms.v \div 1000
        day == sec \div 86400
        sod == sec % 86400
        ymd == CivilFromDays(day)
    IN  IntToString(ymd[1]) \o <<"-">> \o Pad2(ymd[2]) \o <<"-">> \o Pad2(ymd[3])
        \o <<"<","b","r",">">>
        \o Pad2(sod \div 3600) \o <<":">> \o Pad2((sod % 3600) \div 60) \o <<":">>
        \o Pad2(sod % 60) \o <<" ","U","T","C">>

-----------------------------------------------------------------------------
(* The data holders *)

\* the 1e9 of the sentinel extremes
SENTINEL == 1000000000

SentinelBounds ==
    [latMin |-> SENTINEL, latMax |-> 0 - SENTINEL,
     lonMin |-> SENTINEL, lonMax |-> 0 - SENTINEL]

SentinelRange ==
    [altMin |-> SENTINEL, altMax |-> 0 - SENTINEL,
     spdMin |-> SENTINEL, spdMax |-> 0 - SENTINEL]

\* null for a variable that otherwise holds a string
NullText == <<"null">>

Min(a, b) == IF a < b THEN a ELSE b
Max(a, b) == IF a > b THEN a ELSE b

\* a reset that keeps the samples and only re-initializes the scalars
resetDataHolders_keepRows ==
    /\ rows' = rows
    /\ bounds' = bounds
    /\ range' = range
    /\ startTimestampMs' = Null /\ endTimestampMs' = Null /\ trackDir' = "null"
    /\ actualTakeOffMs' = Null /\ actualLandingMs' = Null
    /\ actualTakeOffTime' = NullText /\ actualLandingTime' = NullText

resetDataHolders ==
    /\ rows' = <<>>
    /\ bounds' = SentinelBounds
    /\ range' = SentinelRange
    /\ startTimestampMs' = Null /\ endTimestampMs' = Null /\ trackDir' = "null"
    /\ actualTakeOffMs' = Null /\ actualLandingMs' = Null
    /\ actualTakeOffTime' = NullText /\ actualLandingTime' = NullText

-----------------------------------------------------------------------------
(* parseFromCSVText: header resolution and row-to-sample *)

NamePosition == <<"P","o","s","i","t","i","o","n">>
NameAltitude == <<"A","l","t","i","t","u","d","e">>
NameSpeed == <<"S","p","e","e","d">>
NameDirection == <<"D","i","r","e","c","t","i","o","n">>
NameUTC == <<"U","T","C">>
NameTimestamp == <<"T","i","m","e","s","t","a","m","p">>
NameCallsign == <<"C","a","l","l","s","i","g","n">>

\* splitCSVLine(lines[0]).map(h => h.trim())
HeadersOf(ln) ==
    LET raw == splitCSVLine(ln)
    IN  [i \in 1..Len(raw) |-> Trim(raw[i])]

\* a lookup that compares the names as written
findIdx_caseSensitive(headers, name) ==
    IF \E i \in 1..Len(headers) : headers[i] = name
    THEN (CHOOSE i \in 1..Len(headers) :
              /\ headers[i] = name
              /\ \A j \in 1..(i - 1) : headers[j] # name) - 1
    ELSE -1

\* headers.findIndex(h => h.toLowerCase() === name.toLowerCase())
findIdx(headers, name) ==
    IF \E i \in 1..Len(headers) : ToLowerCase(headers[i]) = ToLowerCase(name)
    THEN (CHOOSE i \in 1..Len(headers) :
              /\ ToLowerCase(headers[i]) = ToLowerCase(name)
              /\ \A j \in 1..(i - 1) : ToLowerCase(headers[j]) # ToLowerCase(name)) - 1
    ELSE -1

ResolveHeader(ln) ==
    LET headers == HeadersOf(ln)
    IN  [iPos |-> findIdx(headers, NamePosition),
         iAlt |-> findIdx(headers, NameAltitude),
         iSpd |-> findIdx(headers, NameSpeed),
         iHdg |-> findIdx(headers, NameDirection),
         iUtc |-> findIdx(headers, NameUTC),
         iTs |-> findIdx(headers, NameTimestamp),
         iCallsign |-> findIdx(headers, NameCallsign)]

NoIdx ==
    [iPos |-> -1, iAlt |-> -1, iSpd |-> -1, iHdg |-> -1, iUtc |-> -1, iTs |-> -1,
     iCallsign |-> -1]

\* !s for a string or undefined
IsFalsy(s) == s = Undefined \/ s = <<>>

\* const pos = unquote((iPos >= 0) ? cols[iPos] : '')
PosOf(cols, ix) == unquote(IF ix.iPos >= 0 THEN At(cols, ix.iPos) ELSE <<>>)

\* (i >= 0) ? Number(cols[i]) : NaN
CellNumber(cols, i) == IF i >= 0 THEN Number(At(cols, i)) ELSE NaN

\* let timestampMs = NaN; if (iTs >= 0) { ts = Number(cols[iTs]); if finite: ts * 1000 }
TimestampOf(cols, ix) ==
    LET ts == CellNumber(cols, ix.iTs)
    IN  IF ix.iTs >= 0 /\ IsFinite(ts) THEN Fin(ts.v * 1000) ELSE NaN

\* a sample that keeps the whole position text as its latitude
SampleOf_noSplit(cols, ix) ==
    LET pos == PosOf(cols, ix)
    IN  [lat |-> Number(pos),
         lon |-> Number(pos),
         alt |-> CellNumber(cols, ix.iAlt),
         spd |-> CellNumber(cols, ix.iSpd),
         hdg |-> CellNumber(cols, ix.iHdg),
         utc |-> IF ix.iUtc >= 0 /\ ~IsFalsy(At(cols, ix.iUtc))
                 THEN unquote(At(cols, ix.iUtc)) ELSE <<>>,
         timestampMs |-> TimestampOf(cols, ix)]

\* the object pushed to rows for a row whose pos is not falsy
SampleOf(cols, ix) ==
    LET pos == PosOf(cols, ix)
        parts == SplitOn(pos, COMMA)
    IN  [lat |-> Number(At(parts, 0)),
         lon |-> Number(At(parts, 1)),
         alt |-> CellNumber(cols, ix.iAlt),
         spd |-> CellNumber(cols, ix.iSpd),
         hdg |-> CellNumber(cols, ix.iHdg),
         utc |-> IF ix.iUtc >= 0 /\ ~IsFalsy(At(cols, ix.iUtc))
                 THEN unquote(At(cols, ix.iUtc)) ELSE <<>>,
         timestampMs |-> TimestampOf(cols, ix)]

\* a guard that skips no row
SkipsRow_never(cols, ix) == FALSE

\* if (!cols.length) continue;  ...  if (!pos) continue;
SkipsRow(cols, ix) == cols = <<>> \/ IsFalsy(PosOf(cols, ix))

\* an insertion that keeps the samples ordered by time (NaN last)
PushRow_sortedByTime(rs, smp) ==
    LET before(r) ==
            IsFinite(r.timestampMs) /\
                (~IsFinite(smp.timestampMs) \/ r.timestampMs.v <= smp.timestampMs.v)
    IN  SelectSeq(rs, before) \o <<smp>> \o SelectSeq(rs, LAMBDA r : ~before(r))

\* rows.push(sample)
PushRow(rs, smp) == Append(rs, smp)

\* bounds after the sample: only a finite coordinate moves its pair
IngestBounds(b, smp) ==
    [latMin |-> IF IsFinite(smp.lat) THEN Min(b.latMin, smp.lat.v) ELSE b.latMin,
     latMax |-> IF IsFinite(smp.lat) THEN Max(b.latMax, smp.lat.v) ELSE b.latMax,
     lonMin |-> IF IsFinite(smp.lon) THEN Min(b.lonMin, smp.lon.v) ELSE b.lonMin,
     lonMax |-> IF IsFinite(smp.lon) THEN Max(b.lonMax, smp.lon.v) ELSE b.lonMax]

\* a range update that overwrites with the latest value
IngestRange_lastValue(r, smp) ==
    [altMin |-> IF IsFinite(smp.alt) THEN smp.alt.v ELSE r.altMin,
     altMax |-> IF IsFinite(smp.alt) THEN Max(r.altMax, smp.alt.v) ELSE r.altMax,
     spdMin |-> IF IsFinite(smp.spd) THEN Min(r.spdMin, smp.spd.v) ELSE r.spdMin,
     spdMax |-> IF IsFinite(smp.spd) THEN Max(r.spdMax, smp.spd.v) ELSE r.spdMax]

IngestRange(r, smp) ==
    [altMin |-> IF IsFinite(smp.alt) THEN Min(r.altMin, smp.alt.v) ELSE r.altMin,
     altMax |-> IF IsFinite(smp.alt) THEN Max(r.altMax, smp.alt.v) ELSE r.altMax,
     spdMin |-> IF IsFinite(smp.spd) THEN Min(r.spdMin, smp.spd.v) ELSE r.spdMin,
     spdMax |-> IF IsFinite(smp.spd) THEN Max(r.spdMax, smp.spd.v) ELSE r.spdMax]

-----------------------------------------------------------------------------
(* finalizeAfterRowsParsed: the derived data, as functions of the samples *)

\* rs[i] for a 0-based i
RowAt(rs, i) == rs[i + 1]

HasFiniteTime(rs) == \E i \in 1..Len(rs) : IsFinite(rs[i].timestampMs)

\* 0-based index of the first / last sample with a finite timestamp
FirstTimedIdx(rs) ==
    (CHOOSE i \in 1..Len(rs) :
        /\ IsFinite(rs[i].timestampMs)
        /\ \A j \in 1..(i - 1) : ~IsFinite(rs[j].timestampMs)) - 1

LastTimedIdx(rs) ==
    (CHOOSE i \in 1..Len(rs) :
        /\ IsFinite(rs[i].timestampMs)
        /\ \A j \in (i + 1)..Len(rs) : ~IsFinite(rs[j].timestampMs)) - 1

\* validTimes[0].timestampMs and validTimes[validTimes.length - 1].timestampMs
StartTimestampOf(rs) ==
    IF HasFiniteTime(rs) THEN RowAt(rs, FirstTimedIdx(rs)).timestampMs ELSE Null

EndTimestampOf(rs) ==
    IF HasFiniteTime(rs) THEN RowAt(rs, LastTimedIdx(rs)).timestampMs ELSE Null

\* a takeoff test that does not ask for a timestamp
Airborne_anyTime(smp) == IsFinite(smp.alt) /\ smp.alt.v > 0

Airborne(smp) ==
    IsFinite(smp.timestampMs) /\ IsFinite(smp.alt) /\ smp.alt.v > 0

\* the takeoff scan: first airborne sample, or -1
TakeoffIdx(rs) ==
    IF \E i \in 1..Len(rs) : Airborne(rs[i])
    THEN (CHOOSE i \in 1..Len(rs) :
              /\ Airborne(rs[i])
              /\ \A j \in 1..(i - 1) : ~Airborne(rs[j])) - 1
    ELSE -1

\* a touchdown test that only looks at the current sample
Touchdown_anyZero(rs, i) ==
    /\ IsFinite(RowAt(rs, i).alt) /\ RowAt(rs, i).alt.v = 0
    /\ IsFinite(RowAt(rs, i).timestampMs)

\* the touchdown edge at 0-based i: prev.alt != 0 -> cur.alt === 0
Touchdown(rs, i) ==
    /\ IsFinite(RowAt(rs, i - 1).alt) /\ IsFinite(RowAt(rs, i).alt)
    /\ RowAt(rs, i - 1).alt.v # 0 /\ RowAt(rs, i).alt.v = 0
    /\ IsFinite(RowAt(rs, i).timestampMs)

\* the landing scan from takeoffIdx + 1, or -1 (also when there is no takeoff)
LandingIdx(rs) ==
    LET t == TakeoffIdx(rs)
        cand == IF t >= 0 THEN {i \in (t + 1)..(Len(rs) - 1) : Touchdown(rs, i)} ELSE {}
    IN  IF cand # {} THEN CHOOSE i \in cand : \A j \in cand : i <= j ELSE -1

TakeOffMsOf(rs) ==
    IF TakeoffIdx(rs) >= 0 THEN RowAt(rs, TakeoffIdx(rs)).timestampMs ELSE Null

LandingMsOf(rs) ==
    IF LandingIdx(rs) >= 0 THEN RowAt(rs, LandingIdx(rs)).timestampMs ELSE Null

\* the text written to dom.infoFlightTime
FlightTimeText(takeoffMs, landingMs) ==
    IF IsFinite(takeoffMs) /\ IsFinite(landingMs) /\ landingMs.v > takeoffMs.v
    THEN formatHMS(Fin(landingMs.v - takeoffMs.v))
    ELSE Dash

\* iStart and iEnd of updateAvgSpeedDuringFlight after their fallbacks
AvgStartIdx(rs) ==
    IF TakeoffIdx(rs) < 0 /\ HasFiniteTime(rs) THEN FirstTimedIdx(rs) ELSE TakeoffIdx(rs)

\* an end of the window that is the last timed row whatever the landing
AvgEndIdx_lastTimed(rs) ==
    IF HasFiniteTime(rs) THEN LastTimedIdx(rs) ELSE LandingIdx(rs)

AvgEndIdx(rs) ==
    IF LandingIdx(rs) <= AvgStartIdx(rs) /\ HasFiniteTime(rs)
    THEN LastTimedIdx(rs) ELSE LandingIdx(rs)

\* a segment test that does not look at the altitudes
SegmentCounts_anyAltitude(rs, i) ==
    LET a == RowAt(rs, i)
        b == RowAt(rs, i + 1)
    IN  /\ IsFinite(a.timestampMs) /\ IsFinite(b.timestampMs)
        /\ (b.timestampMs.v - a.timestampMs.v) \div 1000 > 0
        /\ IsFinite(a.spd) /\ IsFinite(b.spd)

\* whether the pair (i, i + 1) is counted
SegmentCounts(rs, i) ==
    LET a == RowAt(rs, i)
        b == RowAt(rs, i + 1)
    IN  /\ IsFinite(a.timestampMs) /\ IsFinite(b.timestampMs)
        /\ (b.timestampMs.v - a.timestampMs.v) \div 1000 > 0
        /\ IsFinite(a.alt) /\ IsFinite(b.alt) /\ a.alt.v > 0 /\ b.alt.v > 0
        /\ IsFinite(a.spd) /\ IsFinite(b.spd)

SegmentDt(rs, i) ==
    (RowAt(rs, i + 1).timestampMs.v - RowAt(rs, i).timestampMs.v) \div 1000

\* the loop over [from, to): <<2 * weightedSum, totalDt>>
RECURSIVE AvgSums(_, _, _)
AvgSums(rs, from, to) ==
    IF from >= to THEN <<0, 0>>
    ELSE LET rest == AvgSums(rs, from + 1, to)
         IN  IF SegmentCounts(rs, from)
             THEN <<rest[1] + (RowAt(rs, from).spd.v + RowAt(rs, from + 1).spd.v)
                                  * SegmentDt(rs, from),
                    rest[2] + SegmentDt(rs, from)>>
             ELSE rest

\* the text written to dom.avgSpeed: Math.round(avgKt) + ' kt', or the dash
AvgSpeedText(rs) ==
    LET iStart == AvgStartIdx(rs)
        iEnd == AvgEndIdx(rs)
        sums == AvgSums(rs, iStart, iEnd)
    IN  IF ~(iStart >= 0) \/ ~(iEnd > iStart) THEN Dash
        ELSE IF sums[2] > 0
             THEN IntToString((sums[1] + sums[2]) \div (2 * sums[2])) \o <<" ","k","t">>
             ELSE Dash

\* the longitude delta of updateTrackDir, taken without the wrap
DlonOf_unwrapped(lon1, lon2) == lon2 - lon1

\* a longitude delta wrapped into (-180, 180]
DlonOf_halfTurnEast(lon1, lon2) == 180 - JsRem(lon1 - lon2 + 540, 360)

\* let dlon = ((lon2 - lon1 + 540) % 360) - 180, on whole degrees
DlonOf(lon1, lon2) == JsRem(lon2 - lon1 + 540, 360) - 180

\* a classification by the sign of the longitude delta alone
TrackDirOf_signOnly(lat1, lon1, lat2, lon2) ==
    IF ~IsFinite(lat1) \/ ~IsFinite(lon1) \/ ~IsFinite(lat2) \/ ~IsFinite(lon2)
    THEN "null"
    ELSE IF DlonOf(lon1.v, lon2.v) > 0 THEN "E" ELSE "W"

\* a classification that leaves the same meridian unclassified
TrackDirOf_noTieBreak(lat1, lon1, lat2, lon2) ==
    IF ~IsFinite(lat1) \/ ~IsFinite(lon1) \/ ~IsFinite(lat2) \/ ~IsFinite(lon2)
    THEN "null"
    ELSE LET dlon == DlonOf(lon1.v, lon2.v)
         IN  IF dlon = 0 THEN "null"
             ELSE IF dlon > 0 THEN "E" ELSE "W"

\* updateTrackDir: the value it assigns to trackDir.  Longitudes are integers
\* here, so |dlon| < 1e-6 is dlon = 0
TrackDirOf(lat1, lon1, lat2, lon2) ==
    IF ~IsFinite(lat1) \/ ~IsFinite(lon1) \/ ~IsFinite(lat2) \/ ~IsFinite(lon2)
    THEN "null"
    ELSE LET dlon == DlonOf(lon1.v, lon2.v)
         IN  IF dlon = 0
             THEN IF lat2.v - lat1.v = 0 THEN "null"
                  ELSE IF lat2.v > lat1.v THEN "E" ELSE "W"
             ELSE IF dlon > 0 THEN "E" ELSE "W"

\* a nudge that widens every range, degenerate or not
NudgeRange_always(r) ==
    [altMin |-> r.altMin, altMax |-> r.altMax + 1,
     spdMin |-> r.spdMin, spdMax |-> r.spdMax + 1]

\* if (range.altMin === range.altMax) range.altMax = range.altMin + 1; same for spd
NudgeRange(r) ==
    [altMin |-> r.altMin,
     altMax |-> IF r.altMin = r.altMax THEN r.altMin + 1 ELSE r.altMax,
     spdMin |-> r.spdMin,
     spdMax |-> IF r.spdMin = r.spdMax THEN r.spdMin + 1 ELSE r.spdMax]

-----------------------------------------------------------------------------
(* Rosette geometry and pointer resolution *)

\* The result of a JavaScript division of two integers: the fraction n / d
\* with d > 0, NaN for 0 / 0, an infinity for x / 0
FracNaN == [k |-> "nan", n |-> 0, d |-> 1]
FracInf == [k |-> "inf", n |-> 1, d |-> 1]
FracNegInf == [k |-> "inf", n |-> -1, d |-> 1]

Quot(p, q) ==
    IF q = 0 THEN (IF p = 0 THEN FracNaN ELSE IF p > 0 THEN FracInf ELSE FracNegInf)
    ELSE IF q > 0 THEN [k |-> "num", n |-> p, d |-> q]
    ELSE [k |-> "num", n |-> 0 - p, d |-> 0 - q]

\* null in arithmetic counts as 0
NullAsZero(x) == IF x.k = "num" THEN x.v ELSE 0

\* a fraction taken over the last timestamp instead of the span
timeFracForRow_overEnd(row) ==
    IF ~IsFinite(row.timestampMs) THEN FracNaN
    ELSE Quot(row.timestampMs.v - NullAsZero(startTimestampMs),
              NullAsZero(endTimestampMs))

\* (ms - startTimestampMs) / (endTimestampMs - startTimestampMs)
timeFracForRow(row) ==
    IF ~IsFinite(row.timestampMs) THEN FracNaN
    ELSE Quot(row.timestampMs.v - NullAsZero(startTimestampMs),
              NullAsZero(endTimestampMs) - NullAsZero(startTimestampMs))

\* HALF_PI + t * TWO_PI, in turns: 1/4 + t
AngleOf(t) ==
    IF t.k = "num" THEN [k |-> "num", n |-> t.d + 4 * t.n, d |-> 4 * t.d] ELSE t

\* map(alt, altMin, altMax, 0, varR, true), as a fraction of varR
MapClamped(alt, lo, hi) ==
    IF ~IsFinite(alt) THEN FracNaN
    ELSE LET q == Quot(alt.v - lo, hi - lo)
         IN  IF q.k = "num" /\ q.n < 0 THEN [k |-> "num", n |-> 0, d |-> 1]
             ELSE IF q.k = "num" /\ q.n > q.d THEN [k |-> "num", n |-> 1, d |-> 1]
             ELSE IF q.k = "inf" THEN [k |-> "num", n |-> (IF q.n > 0 THEN 1 ELSE 0), d |-> 1]
             ELSE q

\* what reading past the end of the point array gives
UndefinedPoint ==
    [def |-> FALSE, idx |-> -1, angle |-> FracNaN, radius |-> FracNaN,
     t |-> FracNaN, alt |-> NaN, spd |-> NaN, hdg |-> NaN, lat |-> NaN,
     lon |-> NaN, utc |-> <<>>, timestampMs |-> NaN]

\* the point pushed for rows[i]; x and y are the polar pair (angle, radius)
\* about the centre; radius is baseR plus the given fraction of varR
PointOf(i) ==
    LET row == RowAt(rows, i)
        t == timeFracForRow(row)
    IN  [def |-> TRUE, idx |-> i, angle |-> AngleOf(t),
         radius |-> MapClamped(row.alt, range.altMin, range.altMax),
         t |-> t, alt |-> row.alt, spd |-> row.spd, hdg |-> row.hdg,
         lat |-> row.lat, lon |-> row.lon, utc |-> row.utc,
         timestampMs |-> row.timestampMs]

\* arr[i] of the point array, 0-based
PointAt(arr, i) == IF i >= 0 /\ i < Len(arr) THEN arr[i + 1] ELSE UndefinedPoint

\* the pts of buildRosettePoints(): one point per sample, then
\* pts.push(pts[0], pts[1])
buildRosettePoints ==
    LET own == [i \in 1..Len(rows) |-> PointOf(i - 1)]
    IN  own \o <<PointAt(own, 0), PointAt(own, 1)>>

constrain(n, low, high) == Max(Min(n, high), low)

Abs(n) == IF n < 0 THEN 0 - n ELSE n

\* the pointer placed at tn / MouseSteps of the turn from the top
PointerAt(tn) == [k |-> "num", n |-> tn, d |-> MouseSteps]

\* Math.atan2(dy, dx) for a pointer in the direction ang from the centre, in
\* turns: the same direction in (-1/2, 1/2]
Atan2Turns(ang) ==
    LET wholeTurns == 0 - ((ang.d - 2 * ang.n) \div (2 * ang.d))
    IN  [k |-> "num", n |-> ang.n - wholeTurns * ang.d, d |-> ang.d]

\* an inversion that leaves a negative remainder negative
PointerFraction_noWrap(ang) ==
    [k |-> "num", n |-> JsRem(4 * ang.n - ang.d, 4 * ang.d), d |-> 4 * ang.d]

\* t = (ang - HALF_PI) % TWO_PI; if (t < 0) t += TWO_PI; t /= TWO_PI
PointerFraction(ang) ==
    LET rem == JsRem(4 * ang.n - ang.d, 4 * ang.d)
    IN  [k |-> "num", n |-> IF rem < 0 THEN rem + 4 * ang.d ELSE rem, d |-> 4 * ang.d]

\* |rows[i].timestampMs - target| times t.d, for a finite timestamp and
\* target = start + t * (end - start)
ScaledDiff(i, t) ==
    Abs(t.d * RowAt(rows, i).timestampMs.v
        - (t.d * NullAsZero(startTimestampMs)
           + t.n * (NullAsZero(endTimestampMs) - NullAsZero(startTimestampMs))))

\* the scan of getIndexFromMouse from row i on: <<bestIdx, bestDiff>>, with
\* bestDiff = -1 for Infinity
RECURSIVE ScanBest(_, _, _, _)
ScanBest(i, t, bestIdx, bestDiff) ==
    IF i >= Len(rows) THEN <<bestIdx, bestDiff>>
    ELSE IF /\ IsFinite(RowAt(rows, i).timestampMs)
            /\ (bestDiff = -1 \/ ScaledDiff(i, t) < bestDiff)
         THEN ScanBest(i + 1, t, i, ScaledDiff(i, t))
         ELSE ScanBest(i + 1, t, bestIdx, bestDiff)

\* a resolver that always takes the index-proportional guess
getIndexFromMouse_proportional(t, count) ==
    constrain((2 * t.n * (count - 1) + t.d) \div (2 * t.d), 0, count - 1)

\* getIndexFromMouse(center, count) from the fraction t on
getIndexFromMouse(t, count) ==
    LET best == ScanBest(0, t, 0, -1)
    IN  IF best[2] # -1 THEN constrain(best[1], 0, count - 1)
        ELSE constrain((2 * t.n * (count - 1) + t.d) \div (2 * t.d), 0, count - 1)

-----------------------------------------------------------------------------
(* The uploaded texts *)

RECURSIVE JoinWith(_, _)
JoinWith(parts, sep) ==
    IF parts = <<>> THEN <<>>
    ELSE IF Len(parts) = 1 THEN parts[1]
    ELSE parts[1] \o sep \o JoinWith(Tail(parts), sep)

CsvLine(cells) == JoinWith(cells, <<COMMA>>)
Quoted(s) == <<QUOTE>> \o s \o <<QUOTE>>

HeaderCanonical ==
    CsvLine(<<NamePosition, NameAltitude, NameSpeed, NameDirection, NameTimestamp>>)
\* other order, other case, padded, no Speed and no Direction
HeaderReordered ==
    CsvLine(<<ToLowerCase(NameTimestamp),
              <<" ","P","O","S","I","T","I","O","N"," ">>, NameAltitude>>)
\* Callsign and the UTC text, no Timestamp
HeaderCallsignUtc == CsvLine(<<NameCallsign, NamePosition, NameUTC, NameAltitude>>)
\* no Position
HeaderNoPosition == CsvLine(<<NameAltitude, NameSpeed>>)
\* a near miss of the name before the quoted name
HeaderNearMiss ==
    CsvLine(<<NamePosition \o <<"s">>, Quoted(NamePosition), NameSpeed>>)

Headers ==
    {HeaderCanonical, HeaderReordered, HeaderCallsignUtc, HeaderNoPosition,
     HeaderNearMiss}

\* "1,2",0,5,9,1
RowGround == CsvLine(<<Quoted(<<"1",",","2">>), <<"0">>, <<"5">>, <<"9">>, <<"1">>>>)
\* "3,1",7,5,9,2
RowAir == CsvLine(<<Quoted(<<"3",",","1">>), <<"7">>, <<"5">>, <<"9">>, <<"2">>>>)
\* "3,-4",7,8,,3
RowWest == CsvLine(<<Quoted(<<"3",",","-","4">>), <<"7">>, <<"8">>, <<>>, <<"3">>>>)
\* ,7,5,9,4
RowNoPos == CsvLine(<<<<>>, <<"7">>, <<"5">>, <<"9">>, <<"4">>>>)
\* "2",x,,9,
RowOnePart == CsvLine(<<Quoted(<<"2">>), <<"x">>, <<>>, <<"9">>, <<>>>>)
\* "1,2"
RowShort == Quoted(<<"1",",","2">>)
\* "x,2,3",7,3,x,2
RowThreeParts ==
    CsvLine(<<Quoted(<<"x",",","2",",","3">>), <<"7">>, <<"3">>, <<"x">>, <<"2">>>>)
\* "  ",1,1,1,1
RowBlankPos == CsvLine(<<Quoted(<<SP,SP>>), <<"1">>, <<"1">>, <<"1">>, <<"1">>>>)
\* a line of white space
BlankLine == <<SP, SP>>

FileLines ==
    {RowGround, RowAir, RowWest, RowNoPos, RowOnePart, RowShort, RowThreeParts,
     RowBlankPos, BlankLine}

SeqsUpTo(S, n) == UNION {[1..m -> S] : m \in 0..n}

EmptyText == <<>>
BlankText == BlankLine \o <<NL>> \o <<NL>>
HeaderOnlyText == HeaderCanonical
\* blank lines before the header, CRLF line ends, a trailing line end
CrlfText ==
    <<NL>> \o HeaderCanonical \o <<CR, NL>> \o RowAir \o <<CR, NL>> \o RowGround
    \o <<CR, NL>>
FlightText == JoinWith(<<HeaderCanonical, RowAir, RowWest>>, <<NL>>)

Texts ==
    {JoinWith(<<h>> \o ls, <<NL>>) : h \in Headers, ls \in SeqsUpTo(FileLines, MaxDataLines)}
    \cup {EmptyText, BlankText, CrlfText}

\* the files offered for a further upload
ReloadTexts == {EmptyText, BlankText, HeaderOnlyText, FlightText}

-----------------------------------------------------------------------------
(* The state machine *)

DomAfterReset ==
    [infoFlightTime |-> Dash, avgSpeed |-> Dash, infoCallsign |-> Dash,
     takeoffActual |-> Dash, landingActual |-> Dash]

NoCall ==
    /\ text = Undefined /\ lines = <<>> /\ idx = NoIdx /\ callsignVal = <<>>
    /\ line = 0

\* no function is being taken alone
SplitIdle == csvLine = <<>> /\ csvOut = <<>>
TrackIdle == trackArgs = <<>> /\ trackOut = <<>>
SpeedIdle == speedArg = Null /\ speedOut = <<>>
PureIdle == SplitIdle /\ TrackIdle /\ SpeedIdle

InitProgram ==
    /\ rows = <<>>
    /\ bounds = SentinelBounds
    /\ range = SentinelRange
    /\ startTimestampMs = Null /\ endTimestampMs = Null
    /\ trackDir = "null"
    /\ actualTakeOffMs = Null /\ actualLandingMs = Null
    /\ actualTakeOffTime = NullText /\ actualLandingTime = NullText
    /\ selectedIdx = Fin(0)
    /\ dom = DomAfterReset
    /\ pc = "idle"
    /\ NoCall
    /\ pts = <<>> /\ mouseT = PointerAt(0) /\ mouseOver = -1
    /\ cursorFollowMouse = TRUE
    /\ key = ""

\* the page after setup(), the user's first file being read
Init ==
    /\ InitProgram
    /\ pending \in {{t} : t \in Texts}
    /\ PureIdle

\* onFiles: reader.readAsText(f), while no other read is in flight
PickFile(t) ==
    /\ pc = "idle"
    /\ pending = {}
    /\ pending' = pending \cup {t}
    /\ UNCHANGED <<rows, bounds, range, startTimestampMs, endTimestampMs, trackDir,
                   actualTakeOffMs, actualLandingMs, actualTakeOffTime,
                   actualLandingTime, selectedIdx, dom, pc, text, lines, idx,
                   callsignVal, line, pureVars, pts, mouseT, mouseOver, cursorFollowMouse, key>>

\* reader.onload of one pending read: parseFromCSVText(text) up to and
\* including its resetDataHolders()
ParseEnter(t) ==
    /\ pc = "idle"
    /\ t \in pending
    /\ pending' = pending \ {t}
    /\ resetDataHolders
    /\ text' = t
    /\ lines' = <<>> /\ idx' = NoIdx /\ callsignVal' = <<>> /\ line' = 0
    /\ pc' = "entered"
    /\ UNCHANGED <<selectedIdx, dom, pureVars, pts, mouseT, mouseOver, cursorFollowMouse, key>>

\* the two empty-input guards, the header and the callsign
ParseHeader ==
    /\ pc = "entered"
    /\ LET ls == SelectSeq(SplitLines(text), IsNonBlank)
       IN  IF text = <<>> \/ ls = <<>>
           THEN /\ pc' = "idle"
                /\ UNCHANGED <<lines, idx, callsignVal, line>>
           ELSE /\ lines' = ls
                /\ idx' = ResolveHeader(ls[1])
                /\ callsignVal' =
                       IF idx'.iCallsign >= 0 /\ Len(ls) > 1
                       THEN LET cell == At(splitCSVLine(ls[2]), idx'.iCallsign)
                            IN  unquote(IF IsFalsy(cell) THEN <<>> ELSE cell)
                       ELSE <<>>
                /\ line' = 1
                /\ pc' = IF Len(ls) > 1 THEN "rows" ELSE "finalize"
    /\ UNCHANGED <<rows, bounds, range, startTimestampMs, endTimestampMs, trackDir,
                   actualTakeOffMs, actualLandingMs, actualTakeOffTime,
                   actualLandingTime, selectedIdx, dom, pending, text, pureVars, pts,
                   mouseT, mouseOver, cursorFollowMouse, key>>

\* one iteration of the row loop, on lines[line]
ParseRow ==
    /\ pc = "rows"
    /\ LET cols == splitCSVLine(At(lines, line))
           smp == SampleOf(cols, idx)
       IN  IF SkipsRow(cols, idx)
           THEN UNCHANGED <<rows, bounds, range>>
           ELSE /\ rows' = PushRow(rows, smp)
                /\ bounds' = IngestBounds(bounds, smp)
                /\ range' = IngestRange(range, smp)
    /\ line' = line + 1
    /\ pc' = IF line + 1 < Len(lines) THEN "rows" ELSE "finalize"
    /\ UNCHANGED <<startTimestampMs, endTimestampMs, trackDir, actualTakeOffMs,
                   actualLandingMs, actualTakeOffTime, actualLandingTime,
                   selectedIdx, dom, pending, text, lines, idx, callsignVal,
                   pureVars, pts, mouseT, mouseOver, cursorFollowMouse, key>>

\* finalizeAfterRowsParsed() and the callsign display, then the return
Finalize ==
    /\ pc = "finalize"
    /\ IF HasFiniteTime(rows)
       THEN /\ startTimestampMs' = StartTimestampOf(rows)
            /\ endTimestampMs' = EndTimestampOf(rows)
       ELSE UNCHANGED <<startTimestampMs, endTimestampMs>>
    /\ IF TakeoffIdx(rows) >= 0
       THEN /\ actualTakeOffMs' = TakeOffMsOf(rows)
            /\ actualTakeOffTime' = formatUTC(TakeOffMsOf(rows))
            /\ IF LandingIdx(rows) >= 0
               THEN /\ actualLandingMs' = LandingMsOf(rows)
                    /\ actualLandingTime' = formatUTC(LandingMsOf(rows))
               ELSE UNCHANGED <<actualLandingMs, actualLandingTime>>
       ELSE UNCHANGED <<actualTakeOffMs, actualTakeOffTime, actualLandingMs,
                        actualLandingTime>>
    /\ trackDir' =
           IF Len(rows) >= 2
           THEN TrackDirOf(rows[1].lat, rows[1].lon, rows[Len(rows)].lat,
                           rows[Len(rows)].lon)
           ELSE trackDir
    /\ range' = NudgeRange(range)
    /\ dom' = [infoFlightTime |-> FlightTimeText(actualTakeOffMs', actualLandingMs'),
               avgSpeed |-> AvgSpeedText(rows),
               takeoffActual |-> IF actualTakeOffTime' = NullText THEN Dash
                                 ELSE actualTakeOffTime',
               landingActual |-> IF actualLandingTime' = NullText THEN Dash
                                 ELSE actualLandingTime',
               infoCallsign |-> IF callsignVal = <<>> THEN Dash ELSE callsignVal]
    /\ pc' = "idle"
    /\ UNCHANGED <<rows, bounds, selectedIdx, pending, text, lines, idx,
                   callsignVal, line, pureVars, pts, mouseT, mouseOver, cursorFollowMouse, key>>

\* the reset button: resetToWelcome()
ResetToWelcome ==
    /\ pc = "idle"
    /\ resetDataHolders
    /\ selectedIdx' = Fin(0)
    /\ dom' = [dom EXCEPT !.infoFlightTime = Dash, !.avgSpeed = Dash,
                          !.takeoffActual = Dash, !.landingActual = Dash]
    /\ text' = Undefined /\ lines' = <<>> /\ idx' = NoIdx /\ callsignVal' = <<>>
    /\ line' = 0
    /\ UNCHANGED <<pending, pc, pureVars, pts, mouseT, mouseOver, cursorFollowMouse, key>>

Next ==
    \/ \E t \in ReloadTexts : PickFile(t)
    \/ \E t \in pending : ParseEnter(t)
    \/ ParseHeader
    \/ ParseRow
    \/ Finalize
    \/ ResetToWelcome

Spec == Init /\ [][Next]_vars

-----------------------------------------------------------------------------
(* Flights: texts under the canonical header whose rows differ in altitude,  *)
(* speed, timestamp and position, parsed, finalized and drawn                *)

\* a data line "lat,lon",alt,spd,9,ts
FlightLine(lat, lon, alt, spd, ts) ==
    CsvLine(<<Quoted(lat \o <<COMMA>> \o lon), alt, spd, <<"9">>, ts>>)

\* "0,10",0,4,9,1      on the ground
LineTaxi == FlightLine(<<"0">>, <<"1","0">>, <<"0">>, <<"4">>, <<"1">>)
\* "0,10",7,5,9,2      airborne at the same place
LineLiftOff == FlightLine(<<"0">>, <<"1","0">>, <<"7">>, <<"5">>, <<"2">>)
\* "3,-4",7,8,9,3      airborne, to the west
LineCruise == FlightLine(<<"3">>, <<"-","4">>, <<"7">>, <<"8">>, <<"3">>)
\* "5,10",0,6,9,5      on the ground, north on the meridian of the first
LineTouchDown == FlightLine(<<"5">>, <<"1","0">>, <<"0">>, <<"6">>, <<"5">>)
\* "1,20",9,2,9,7      airborne, to the east, late
LineLate == FlightLine(<<"1">>, <<"2","0">>, <<"9">>, <<"2">>, <<"7">>)
\* "x,30",7,5,9,x      airborne, no latitude, no timestamp
LineUntimed == FlightLine(<<"x">>, <<"3","0">>, <<"7">>, <<"5">>, <<"x">>)
\* "2,20",x,5,9,4      no altitude
LineNoAlt == FlightLine(<<"2">>, <<"2","0">>, <<"x">>, <<"5">>, <<"4">>)
\* "2,20",8,x,9,4      airborne, no speed
LineNoSpeed == FlightLine(<<"2">>, <<"2","0">>, <<"8">>, <<"x">>, <<"4">>)
\* "0,10",0,6,9,3727   on the ground at the place of the first, much later
LineArrived ==
    FlightLine(<<"0">>, <<"1","0">>, <<"0">>, <<"6">>, <<"3","7","2","7">>)

FlightLines ==
    {LineTaxi, LineLiftOff, LineCruise, LineTouchDown, LineLate, LineUntimed,
     LineNoAlt, LineNoSpeed, LineArrived}

\* altitudes 0,0,150,300,150,0,0 at the timestamps 1..7, from (40,-100) to
\* (40,170)
ExampleFlightText ==
    JoinWith(<<HeaderCanonical,
               FlightLine(<<"4","0">>, <<"-","1","0","0">>, <<"0">>, <<"3">>, <<"1">>),
               FlightLine(<<"4","0">>, <<"-","9","0">>, <<"0">>, <<"5">>, <<"2">>),
               FlightLine(<<"4","1">>, <<"-","8","0">>, <<"1","5","0">>, <<"9">>, <<"3">>),
               FlightLine(<<"4","2">>, <<"1","0">>, <<"3","0","0">>, <<"1","2">>, <<"4">>),
               FlightLine(<<"4","1">>, <<"9","0">>, <<"1","5","0">>, <<"8">>, <<"5">>),
               FlightLine(<<"4","0">>, <<"1","6","0">>, <<"0">>, <<"4">>, <<"6">>),
               FlightLine(<<"4","0">>, <<"1","7","0">>, <<"0">>, <<"2">>, <<"7">>)>>,
             <<NL>>)

\* "1,20",9,6,9,9      airborne still, later than LineLate
LineAgain == FlightLine(<<"1">>, <<"2","0">>, <<"9">>, <<"6">>, <<"9">>)

\* a touch-and-go: airborne at 2 and 3, on the ground at 5, airborne again at
\* 7 and 9
TouchAndGoText ==
    JoinWith(<<HeaderCanonical, LineLiftOff, LineCruise, LineTouchDown, LineLate,
               LineAgain>>, <<NL>>)

FlightTexts ==
    {JoinWith(<<HeaderCanonical>> \o ls, <<NL>>) : ls \in SeqsUpTo(FlightLines, MaxFlightRows)}
    \cup {ExampleFlightText, TouchAndGoText}

\* a frame that could start in the middle of a handler
FrameMayRun_midCall == pc # "drawn"

\* a frame starts between two handlers only: reader.onload runs
\* parseFromCSVText to its return before draw() is called again
FrameMayRun == pc = "idle"

\* draw() with the pointer in the direction ang from the centre: nothing but
\* the background without samples, else drawRosette() down to its
\* if (cursorFollowMouse) selectedIdx = getIndexFromMouse(center, pts.length - 2)
DrawFrame(ang) ==
    /\ FrameMayRun
    /\ mouseT' = PointerFraction(Atan2Turns(ang))
    /\ IF rows = <<>>
       THEN UNCHANGED <<pts, selectedIdx, pc>>
       ELSE /\ pts' = buildRosettePoints
            /\ selectedIdx' = IF cursorFollowMouse
                              THEN Fin(getIndexFromMouse(mouseT', Len(pts') - 2))
                              ELSE selectedIdx
            /\ pc' = "drawn"
    /\ UNCHANGED <<rows, bounds, range, startTimestampMs, endTimestampMs, trackDir,
                   actualTakeOffMs, actualLandingMs, actualTakeOffTime,
                   actualLandingTime, dom, pending, text, lines, idx,
                   callsignVal, line, pureVars, cursorFollowMouse, key>>

\* a frame with the pointer at tn / MouseSteps of the turn from the top
Draw(tn) ==
    /\ mouseOver' = -1
    /\ DrawFrame(AngleOf(PointerAt(tn)))

\* a frame with the pointer on the point of sample i, in the direction of its
\* angle
DrawOver(i) ==
    /\ i >= 0 /\ i < Len(rows)
    /\ PointOf(i).angle.k = "num"
    /\ mouseOver' = i
    /\ DrawFrame(PointOf(i).angle)

\* drawRosette() returns: its pts are gone
EndDraw ==
    /\ pc = "drawn"
    /\ pts' = <<>>
    /\ pc' = "idle"
    /\ UNCHANGED <<rows, bounds, range, startTimestampMs, endTimestampMs, trackDir,
                   actualTakeOffMs, actualLandingMs, actualTakeOffTime,
                   actualLandingTime, selectedIdx, dom, pending, text, lines, idx,
                   callsignVal, line, pureVars, mouseT, mouseOver, cursorFollowMouse, key>>

InitFlight ==
    /\ InitProgram
    /\ pending \in {{t} : t \in FlightTexts}
    /\ PureIdle

NextFlight ==
    \/ \E t \in pending : ParseEnter(t)
    \/ ParseHeader
    \/ ParseRow
    \/ Finalize
    \/ \E tn \in 0..(MouseSteps - 1) : Draw(tn)
    \/ EndDraw

SpecFlight == InitFlight /\ [][NextFlight]_vars

-----------------------------------------------------------------------------
(* Several files read at once: MaxPending reads are in flight when the page *)
(* is left alone, and complete in any order while frames are drawn          *)

MaxPending == 2

\* ,7,5,9,4 between two rows with a position: a row that is dropped
GapText == JoinWith(<<HeaderCanonical, RowGround, RowNoPos, RowAir>>, <<NL>>)

UploadTexts ==
    {EmptyText, HeaderOnlyText, FlightText, CrlfText, GapText, TouchAndGoText}

InitUploads ==
    /\ InitProgram
    /\ pending \in {S \in SUBSET UploadTexts : Cardinality(S) = MaxPending}
    /\ PureIdle

NextUploads ==
    \/ \E t \in pending : ParseEnter(t)
    \/ ParseHeader
    \/ ParseRow
    \/ Finalize
    \/ \E tn \in 0..(MouseSteps - 1) : Draw(tn)
    \/ EndDraw

SpecUploads == InitUploads /\ [][NextUploads]_vars

-----------------------------------------------------------------------------
(* The cursor: files uploaded one after the other, the reset button, frames  *)
(* drawn with the pointer anywhere or on a sample's point, and the keys      *)

ArrowKeys == {"ArrowRight", "ArrowLeft", "ArrowUp", "ArrowDown"}

\* the keys keyPressed acts on, but for the A key that saves the canvas
Keys == ArrowKeys \cup {" ", "i", "o"}

\* if (keyCode === RIGHT_ARROW) delta = 1; else if ... LEFT_ARROW -1, UP_ARROW
\* 10, DOWN_ARROW -10
ArrowDelta(k) ==
    CASE k = "ArrowRight" -> 1
      [] k = "ArrowLeft"  -> 0 - 1
      [] k = "ArrowUp"    -> 10
      [] k = "ArrowDown"  -> 0 - 10

\* let next = (selectedIdx + delta) % rows.length; if (next < 0) next +=
\* rows.length: NaN for no rows (x % 0) and for a selectedIdx that is NaN
ArrowNext(sel, delta, n) ==
    IF ~IsFinite(sel) \/ n = 0 THEN NaN
    ELSE LET next == JsRem(sel.v + delta, n)
         IN  Fin(IF next < 0 THEN next + n ELSE next)

\* a key goes down between two handlers: p5 stores it and calls keyPressed
PressKey(k) ==
    /\ pc = "idle"
    /\ key' = k
    /\ pc' = "keyPressed"
    /\ UNCHANGED <<rows, bounds, range, startTimestampMs, endTimestampMs, trackDir,
                   actualTakeOffMs, actualLandingMs, actualTakeOffTime,
                   actualLandingTime, selectedIdx, dom, pending, text, lines,
                   idx, callsignVal, line, pureVars, pts, mouseT, mouseOver,
                   cursorFollowMouse>>

\* function keyPressed(): Space toggles cursorFollowMouse; an arrow steps
\* selectedIdx when the pointer is not followed; I and O go to the data start
\* and end
keyPressed ==
    /\ pc = "keyPressed"
    /\ cursorFollowMouse' = IF key = " " THEN ~cursorFollowMouse
                            ELSE cursorFollowMouse
    /\ selectedIdx' =
           CASE key \in ArrowKeys /\ ~cursorFollowMouse ->
                    ArrowNext(selectedIdx, ArrowDelta(key), Len(rows))
             [] key = "i" -> Fin(0)
             [] key = "o" -> Fin(Len(rows) - 1)
             [] OTHER -> selectedIdx
    /\ pc' = "idle"
    /\ UNCHANGED <<rows, bounds, range, startTimestampMs, endTimestampMs, trackDir,
                   actualTakeOffMs, actualLandingMs, actualTakeOffTime,
                   actualLandingTime, dom, pending, text, lines, idx,
                   callsignVal, line, pureVars, pts, mouseT, mouseOver, key>>

\* samples at 7, 2 and 3 seconds, in that order
UnsortedText == JoinWith(<<HeaderCanonical, LineLate, LineLiftOff, LineCruise>>, <<NL>>)

\* one sample
SingleText == JoinWith(<<HeaderCanonical, LineLiftOff>>, <<NL>>)

CursorTexts == {ExampleFlightText, UnsortedText, SingleText}

InitCursor ==
    /\ InitProgram
    /\ pending \in {{t} : t \in CursorTexts}
    /\ PureIdle

NextCursor ==
    \/ \E t \in {SingleText} : PickFile(t)
    \/ \E t \in pending : ParseEnter(t)
    \/ ParseHeader
    \/ ParseRow
    \/ Finalize
    \/ ResetToWelcome
    \/ \E tn \in 0..(MouseSteps - 1) : Draw(tn)
    \/ \E i \in 0..(Len(rows) - 1) : DrawOver(i)
    \/ EndDraw
    \/ \E k \in Keys : PressKey(k)
    \/ keyPressed

SpecCursor == InitCursor /\ [][NextCursor]_vars

-----------------------------------------------------------------------------
(* The splitter taken alone: every line over a letter, the comma and the     *)
(* double quote up to MaxLineLen characters, and the line a,"b,c",d          *)

SplitAlphabet == {"a", COMMA, QUOTE}

ExampleLine == <<"a", COMMA, QUOTE, "b", COMMA, "c", QUOTE, COMMA, "d">>

ExampleFields == << <<"a">>, <<"b", COMMA, "c">>, <<"d">> >>

InitSplit ==
    /\ InitProgram
    /\ pending = {}
    /\ csvLine \in SeqsUpTo(SplitAlphabet, MaxLineLen) \cup {ExampleLine}
    /\ csvOut = <<>>
    /\ TrackIdle /\ SpeedIdle

\* out = splitCSVLine(line)
ApplySplit ==
    /\ csvOut = <<>>
    /\ csvOut' = splitCSVLine(csvLine)
    /\ UNCHANGED <<progVars, csvLine, trackVars, speedVars>>

NextSplit == ApplySplit

SpecSplit == InitSplit /\ [][NextSplit]_vars

-----------------------------------------------------------------------------
(* updateTrackDir taken alone: it is called on two positions of whole       *)
(* degrees, and then on the same two positions in the other order           *)

\* the longitudes: the multiples of LonStride in [-180, 180] and the degrees
\* next to them
LonStride == 45
TrackLons == {lon \in -180..180 : lon % LonStride \in {0, 1, LonStride - 1}}
TrackLats == {-5, 0, 40}

InitTrack ==
    /\ InitProgram
    /\ pending = {}
    /\ SplitIdle /\ SpeedIdle
    /\ trackArgs \in {<<Fin(lat1), Fin(lon1), Fin(lat2), Fin(lon2)>> :
                          lat1 \in TrackLats, lon1 \in TrackLons,
                          lat2 \in TrackLats, lon2 \in TrackLons}
    /\ trackOut = <<>>

\* updateTrackDir(lat1, lon1, lat2, lon2)
CallTrackDir ==
    /\ trackOut = <<>>
    /\ trackDir' = TrackDirOf(trackArgs[1], trackArgs[2], trackArgs[3], trackArgs[4])
    /\ trackOut' = <<trackDir'>>
    /\ UNCHANGED <<rows, bounds, range, startTimestampMs, endTimestampMs,
                   actualTakeOffMs, actualLandingMs, actualTakeOffTime,
                   actualLandingTime, selectedIdx, dom, pending, pc, text, lines,
                   idx, callsignVal, line, splitVars, trackArgs, speedVars, pts,
                   mouseT, mouseOver, cursorFollowMouse, key>>

\* updateTrackDir(lat2, lon2, lat1, lon1)
CallTrackDirBack ==
    /\ Len(trackOut) = 1
    /\ trackDir' = TrackDirOf(trackArgs[3], trackArgs[4], trackArgs[1], trackArgs[2])
    /\ trackOut' = Append(trackOut, trackDir')
    /\ UNCHANGED <<rows, bounds, range, startTimestampMs, endTimestampMs,
                   actualTakeOffMs, actualLandingMs, actualTakeOffTime,
                   actualLandingTime, selectedIdx, dom, pending, pc, text, lines,
                   idx, callsignVal, line, splitVars, trackArgs, speedVars, pts,
                   mouseT, mouseOver, cursorFollowMouse, key>>

NextTrack == CallTrackDir \/ CallTrackDirBack

SpecTrack == InitTrack /\ [][NextTrack]_vars

-----------------------------------------------------------------------------
(* speedColor taken alone, in its two versions.  A speed is a whole number  *)
(* of 1/SpeedUnit knots, so that speeds just below and just above a band    *)
(* boundary exist; a blending factor is the exact fraction tn / td          *)

SpeedUnit == 1000
SMOOTH_KT == 15

\* SPEED_BANDS; open marks max: Infinity
SPEED_BANDS ==
    << [min |-> 0,   max |-> 40,  open |-> FALSE, color |-> <<255, 66, 69>>],
       [min |-> 40,  max |-> 160, open |-> FALSE, color |-> <<255, 146, 48>>],
       [min |-> 160, max |-> 300, open |-> FALSE, color |-> <<48, 209, 88>>],
       [min |-> 300, max |-> 420, open |-> FALSE, color |-> <<0, 145, 255>>],
       [min |-> 420, max |-> 520, open |-> FALSE, color |-> <<219, 52, 242>>],
       [min |-> 520, max |-> 0,   open |-> TRUE,  color |-> <<255, 55, 95>>] >>

\* Math.round(c0 + (c1 - c0) * t) for t = tn / td, td > 0
LerpChannel(c0, c1, tn, td) == (2 * (c0 * td + (c1 - c0) * tn) + td) \div (2 * td)

lerpRGB(c0, c1, tn, td) == [ch \in 1..3 |-> LerpChannel(c0[ch], c1[ch], tn, td)]

\* spd >= band.min && spd < band.max
InBand(spd, band) ==
    /\ IsFinite(spd)
    /\ spd.v >= band.min * SpeedUnit
    /\ band.open \/ spd.v < band.max * SpeedUnit

\* the index (from 1) of the first band the loop finds the speed in, 0 if none
BandIndex(spd) ==
    IF \E i \in 1..Len(SPEED_BANDS) : InBand(spd, SPEED_BANDS[i])
    THEN CHOOSE i \in 1..Len(SPEED_BANDS) :
             /\ InBand(spd, SPEED_BANDS[i])
             /\ \A j \in 1..(i - 1) : ~InBand(spd, SPEED_BANDS[j])
    ELSE 0

\* { r, g, b, a }
Rgba(c, a) == [r |-> c[1], g |-> c[2], b |-> c[3], a |-> a]

\* a speedColor that blends over twice the smoothing width
speedColor_wideBlend(spd) ==
    LET i == BandIndex(spd)
        band == SPEED_BANDS[i]
        zone == 2 * SMOOTH_KT * SpeedUnit
        distFromMin == spd.v - band.min * SpeedUnit
        distToMax == band.max * SpeedUnit - spd.v
        lower ==
            IF i > 1 /\ distFromMin < zone
            THEN lerpRGB(lerpRGB(SPEED_BANDS[i - 1].color, band.color, 1, 2),
                         band.color, constrain(distFromMin, 0, zone), zone)
            ELSE band.color
        upper ==
            IF i < Len(SPEED_BANDS) /\ ~band.open /\ distToMax < zone
            THEN lerpRGB(lower, lerpRGB(band.color, SPEED_BANDS[i + 1].color, 1, 2),
                         constrain(zone - distToMax, 0, zone), zone)
            ELSE lower
    IN  IF i = 0 THEN Rgba(SPEED_BANDS[Len(SPEED_BANDS)].color, 92)
        ELSE Rgba(upper, 100)

\* speedColor(spd) of sketch2.js: towards either edge of the band the colour
\* runs to the midpoint between the band and its neighbour
speedColor(spd) ==
    LET i == BandIndex(spd)
        band == SPEED_BANDS[i]
        zone == SMOOTH_KT * SpeedUnit
        distFromMin == spd.v - band.min * SpeedUnit
        distToMax == band.max * SpeedUnit - spd.v
        lower ==
            IF i > 1 /\ distFromMin < zone
            THEN lerpRGB(lerpRGB(SPEED_BANDS[i - 1].color, band.color, 1, 2),
                         band.color, constrain(distFromMin, 0, zone), zone)
            ELSE band.color
        upper ==
            IF i < Len(SPEED_BANDS) /\ ~band.open /\ distToMax < zone
            THEN lerpRGB(lower, lerpRGB(band.color, SPEED_BANDS[i + 1].color, 1, 2),
                         constrain(zone - distToMax, 0, zone), zone)
            ELSE lower
    IN  IF i = 0 THEN Rgba(SPEED_BANDS[Len(SPEED_BANDS)].color, 92)
        ELSE Rgba(upper, 100)

\* speedColor(spd) of unnamed/part_000: towards the lower edge the colour runs
\* to the previous band's colour, towards the upper edge to the next band's
speedColorPart000(spd) ==
    LET i == BandIndex(spd)
        band == SPEED_BANDS[i]
        zone == SMOOTH_KT * SpeedUnit
        distFromMin == spd.v - band.min * SpeedUnit
        distToMax == band.max * SpeedUnit - spd.v
        lower ==
            IF i > 1 /\ distFromMin < zone
            THEN lerpRGB(SPEED_BANDS[i - 1].color, band.color,
                         constrain(distFromMin, 0, zone), zone)
            ELSE band.color
        upper ==
            IF i < Len(SPEED_BANDS) /\ ~band.open /\ distToMax < zone
            THEN lerpRGB(lower, SPEED_BANDS[i + 1].color,
                         constrain(zone - distToMax, 0, zone), zone)
            ELSE lower
    IN  IF i = 0 THEN Rgba(SPEED_BANDS[Len(SPEED_BANDS)].color, 92)
        ELSE Rgba(upper, 92)

\* the internal band boundaries, in knots
InnerBreaks == {SPEED_BANDS[i].min : i \in 2..Len(SPEED_BANDS)}

\* the speeds tried: at, next to, half-way into and at the end of the blending
\* zone on either side of every boundary, the middle of every band, zero, a
\* speed below zero, a speed beyond every band's start, and NaN
SpeedGrid ==
    LET zone == SMOOTH_KT * SpeedUnit
        offsets == {0, 1, SpeedUnit, zone \div 2, zone - 1, zone, zone + 1}
    IN  {b * SpeedUnit + o : b \in InnerBreaks, o \in offsets}
        \cup {b * SpeedUnit - o : b \in InnerBreaks, o \in offsets}
        \cup {0, 1, 0 - SpeedUnit, 20 * SpeedUnit, 100 * SpeedUnit,
              230 * SpeedUnit, 360 * SpeedUnit, 470 * SpeedUnit, 900 * SpeedUnit}

InitColor ==
    /\ InitProgram
    /\ pending = {}
    /\ SplitIdle /\ TrackIdle
    /\ speedArg \in {Fin(s) : s \in SpeedGrid} \cup {NaN}
    /\ speedOut = <<>>

\* col = speedColor(spd), sketch2.js
CallSpeedColor ==
    /\ speedOut = <<>>
    /\ speedOut' = <<speedColor(speedArg)>>
    /\ UNCHANGED <<progVars, splitVars, trackVars, speedArg>>

\* col = speedColor(spd), unnamed/part_000
CallSpeedColorPart000 ==
    /\ Len(speedOut) = 1
    /\ speedOut' = Append(speedOut, speedColorPart000(speedArg))
    /\ UNCHANGED <<progVars, splitVars, trackVars, speedArg>>

NextColor == CallSpeedColor \/ CallSpeedColorPart000

SpecColor == InitColor /\ [][NextColor]_vars

-----------------------------------------------------------------------------
(* C1 *)

\* What each character of a line does, read left to right: "toggle" (a quote
\* that switches the quote mode), "escape" (the first quote of a doubled quote
\* met in quote mode), "skip" (its second quote), "sep" (a comma outside quote
\* mode) or "lit" (any other character)
RECURSIVE RolesFrom(_, _, _)
RolesFrom(ln, i, inQ) ==
    IF i > Len(ln) THEN <<>>
    ELSE IF ln[i] = QUOTE /\ inQ /\ i < Len(ln) /\ ln[i + 1] = QUOTE
         THEN <<"escape", "skip">> \o RolesFrom(ln, i + 2, inQ)
    ELSE IF ln[i] = QUOTE THEN <<"toggle">> \o RolesFrom(ln, i + 1, ~inQ)
    ELSE IF ln[i] = COMMA /\ ~inQ THEN <<"sep">> \o RolesFrom(ln, i + 1, inQ)
    ELSE <<"lit">> \o RolesFrom(ln, i + 1, inQ)

Roles(ln) == RolesFrom(ln, 1, FALSE)

\* the positions of the separators, and the field between two of them: the
\* literal characters, one quote per escape, nothing for a toggle or a skip
SepPositions(ln) == {p \in 1..Len(ln) : Roles(ln)[p] = "sep"}

Emitted(ln, from, to) ==
    LET keep == {p \in from..to : Roles(ln)[p] \in {"lit", "escape"}}
        nth(k) == CHOOSE p \in keep : Cardinality({q \in keep : q < p}) = k - 1
    IN  [k \in 1..Cardinality(keep) |-> ln[nth(k)]]

FieldsByRole(ln) ==
    LET seps == SepPositions(ln)
        n == Cardinality(seps)
        sep(k) == CHOOSE p \in seps : Cardinality({q \in seps : q < p}) = k - 1
    IN  [k \in 1..(n + 1) |->
            Emitted(ln, IF k = 1 THEN 1 ELSE sep(k - 1) + 1,
                        IF k = n + 1 THEN Len(ln) ELSE sep(k) - 1)]

\* C1: splitCSVLine(line) has 1 + (commas outside quote mode) fields; the
\* fields are the characters between those commas with every toggling quote
\* dropped and every doubled quote met in quote mode turned into one quote;
\* and a,"b,c",d gives the fields a / b,c / d.
C1_SplitFollowsQuoteMode ==
    csvOut # <<>> =>
        /\ Len(csvOut) = 1 + Cardinality(SepPositions(csvLine))
        /\ csvOut = FieldsByRole(csvLine)
        /\ csvLine = ExampleLine => csvOut = ExampleFields

\* the example has been split, and so has a line with a doubled quote in quote mode
C1_Witness ==
    \/ csvLine = ExampleLine /\ csvOut = ExampleFields
    \/ /\ csvLine = <<QUOTE, QUOTE, QUOTE, COMMA, "a">>
       /\ csvOut = << <<QUOTE, COMMA, "a">> >>

-----------------------------------------------------------------------------
(* What the claims about parseFromCSVText speak of *)

\* a call of parseFromCSVText has returned and nothing has happened since
Returned == pc = "idle" /\ text # Undefined

\* the row loop is over (all rows ingested): before, or after, the finalization
AfterRows == pc = "finalize" \/ (Returned /\ lines # <<>>)

\* the lines after the header
DataLines == Tail(lines)

\* the Position field of a data line after unquoting, empty when it is missing
PositionText(ln) ==
    LET fields == splitCSVLine(ln)
    IN  IF idx.iPos < 0 \/ idx.iPos >= Len(fields) THEN <<>>
        ELSE unquote(fields[idx.iPos + 1])

PositionParts(ln) == SplitOn(PositionText(ln), COMMA)

\* the data lines whose Position field is not empty, in the order of the text
KeptLines == SelectSeq(DataLines, LAMBDA ln : PositionText(ln) # <<>>)

\* the number of data rows with an empty or missing Position
DroppedCount ==
    Cardinality({i \in 1..Len(DataLines) : PositionText(DataLines[i]) = <<>>})

-----------------------------------------------------------------------------
(* C2 *)

\* C2: once the rows are ingested, lines holds the non-blank lines of the
\* text, and the samples are, one for one and in the order of the lines, the
\* data lines whose Position field is non-empty after unquoting: N lines with
\* K such rows dropped give N - 1 - K samples.  An empty or all-blank text
\* gives none.
C2_OneSamplePerPositionedLine ==
    /\ AfterRows =>
          /\ lines = SelectSeq(SplitLines(text), IsNonBlank)
          /\ Len(rows) = Len(lines) - 1 - DroppedCount
          /\ Len(rows) = Len(KeptLines)
          /\ \A k \in 1..Len(rows) :
                rows[k] = SampleOf(splitCSVLine(KeptLines[k]), idx)
    /\ (Returned /\ lines = <<>>) => rows = <<>>

\* two samples kept in line order although their timestamps decrease
C2_Witness ==
    /\ Returned /\ Len(lines) = 3 /\ Len(rows) = 2
    /\ IsFinite(rows[1].timestampMs) /\ IsFinite(rows[2].timestampMs)
    /\ rows[1].timestampMs.v > rows[2].timestampMs.v

-----------------------------------------------------------------------------
(* C3 *)

\* the data lines whose Position splits on ',' into exactly two parts
TwoPartLines ==
    SelectSeq(DataLines,
              LAMBDA ln : PositionText(ln) # <<>> /\ Len(PositionParts(ln)) = 2)

-----------------------------------------------------------------------------
(* C4 *)

FiniteOrNaN(x) == x.k \in {"num", "nan"}

-----------------------------------------------------------------------------
(* C5 *)

\* a header cell names the column: same text after trimming, whatever the case
NamesColumn(cell, name) == ToLowerCase(Trim(cell)) = ToLowerCase(name)

\* i is the 0-based place of the first header cell naming the column, or -1
\* when no cell names it
ResolvesTo(i, name) ==
    LET cells == splitCSVLine(lines[1])
    IN  \/ i = -1 /\ \A c \in 1..Len(cells) : ~NamesColumn(cells[c], name)
        \/ /\ i >= 0 /\ i < Len(cells)
           /\ NamesColumn(cells[i + 1], name)
           /\ \A c \in 1..i : ~NamesColumn(cells[c], name)

\* C5: each of the six columns resolves on its own to the first header cell
\* with that trimmed name in any case, or to -1; a sample of a text without
\* the Altitude (Speed, Direction, Timestamp) column has NaN there; and the
\* row loop reads every data line once and then reaches the finalization.
C5_HeaderResolution ==
    /\ lines # <<>> =>
          /\ ResolvesTo(idx.iPos, NamePosition)
          /\ ResolvesTo(idx.iAlt, NameAltitude)
          /\ ResolvesTo(idx.iSpd, NameSpeed)
          /\ ResolvesTo(idx.iHdg, NameDirection)
          /\ ResolvesTo(idx.iTs, NameTimestamp)
          /\ ResolvesTo(idx.iCallsign, NameCallsign)
          /\ \A k \in 1..Len(rows) :
                /\ idx.iAlt = -1 => rows[k].alt = NaN
                /\ idx.iSpd = -1 => rows[k].spd = NaN
                /\ idx.iHdg = -1 => rows[k].hdg = NaN
                /\ idx.iTs = -1 => rows[k].timestampMs = NaN
    /\ pc = "rows" => line >= 1 /\ line < Len(lines)
    /\ pc = "finalize" => line >= 1 /\ line = Len(lines)

\* a reordered header in other case, without Speed and Direction, and a sample
C5_Witness ==
    /\ Returned /\ Len(rows) >= 1
    /\ idx.iTs = 0 /\ idx.iPos = 1 /\ idx.iAlt = 2
    /\ idx.iSpd = -1 /\ idx.iHdg = -1
    /\ rows[1].spd = NaN /\ rows[1].hdg = NaN /\ IsFinite(rows[1].alt)

-----------------------------------------------------------------------------
(* C6 *)

\* the cell of column i in a data line: Undefined when the column is absent
\* (i = -1) or the line has no cell there
OptionalCell(ln, i) ==
    LET fields == splitCSVLine(ln)
    IN  IF i < 0 \/ i >= Len(fields) THEN Undefined ELSE fields[i + 1]

\* the number the claim gives a cell: NaN for an absent, missing or empty cell
\* and for one that is not a finite number, the cell's number otherwise
ClaimedNumber(cell) ==
    IF cell = Undefined \/ cell = <<>> \/ ~IsFinite(Number(cell)) THEN NaN
    ELSE Number(cell)

ClaimedTimestamp(cell) ==
    IF ClaimedNumber(cell) = NaN THEN NaN ELSE Fin(1000 * ClaimedNumber(cell).v)

\* C6 as claimed: in every retained sample altitude, speed and heading are NaN
\* when the column is absent or the cell is missing, empty or not a finite
\* number, and the cell's number otherwise; timestampMs is NaN in the same
\* cases and 1000 times the Timestamp cell otherwise, whatever the UTC cell.
C6_AsClaimed ==
    AfterRows =>
        \A k \in 1..Len(rows) :
            /\ k <= Len(KeptLines)
            /\ rows[k].alt = ClaimedNumber(OptionalCell(KeptLines[k], idx.iAlt))
            /\ rows[k].spd = ClaimedNumber(OptionalCell(KeptLines[k], idx.iSpd))
            /\ rows[k].hdg = ClaimedNumber(OptionalCell(KeptLines[k], idx.iHdg))
            /\ rows[k].timestampMs =
                   ClaimedTimestamp(OptionalCell(KeptLines[k], idx.iTs))

-----------------------------------------------------------------------------
(* C7 *)

HoldersAreReset ==
    /\ rows = <<>>
    /\ bounds = [latMin |-> SENTINEL, latMax |-> 0 - SENTINEL,
                 lonMin |-> SENTINEL, lonMax |-> 0 - SENTINEL]
    /\ range = [altMin |-> SENTINEL, altMax |-> 0 - SENTINEL,
                spdMin |-> SENTINEL, spdMax |-> 0 - SENTINEL]
    /\ startTimestampMs = Null /\ endTimestampMs = Null
    /\ trackDir = "null"
    /\ actualTakeOffMs = Null /\ actualLandingMs = Null
    /\ actualTakeOffTime = NullText /\ actualLandingTime = NullText

\* C7: right after resetDataHolders, whether parseFromCSVText or the reset
\* button ran it and whatever the state before, the samples are empty, bounds
\* and range hold the +/-1e9 sentinels and start and end timestamp, track
\* direction, takeoff and landing are null; and parseFromCSVText reads the
\* lines of its text only from that state.
C7_ResetBeforeAnyLine ==
    /\ [](((pc = "entered") \/ (pc = "idle" /\ text = Undefined)) => HoldersAreReset)
    /\ [](pc = "entered" => lines = <<>> /\ line = 0)
    /\ [][(lines' # lines /\ lines' # <<>>) => (pc = "entered" /\ HoldersAreReset)]_vars

\* a second upload enters parseFromCSVText while the page still shows the
\* average speed and the takeoff time of the previous dataset
C7_Witness ==
    /\ pc = "entered" /\ rows = <<>> /\ range.altMin = SENTINEL
    /\ dom.avgSpeed # Dash /\ dom.takeoffActual # Dash

-----------------------------------------------------------------------------
(* C8 *)

\* the finite values of one field among the samples ingested so far
FiniteValues(f) == {rows[k][f].v : k \in {j \in 1..Len(rows) : IsFinite(rows[j][f])}}

Least(S) == CHOOSE x \in S : \A y \in S : x <= y
Greatest(S) == CHOOSE x \in S : \A y \in S : x >= y

\* lo and hi are the extremes of S, or the sentinels when S is empty
TracksExtremes(lo, hi, S) ==
    IF S = {} THEN lo = SENTINEL /\ hi = 0 - SENTINEL
    ELSE lo = Least(S) /\ hi = Greatest(S)

\* one step of the row loop moved this pair monotonically, and not at all when
\* no sample was pushed or the pushed sample's field is not finite
IngestStep(lo, hi, loNext, hiNext, f) ==
    /\ loNext <= lo /\ hiNext >= hi
    /\ Len(rows') = Len(rows) => loNext = lo /\ hiNext = hi
    /\ (Len(rows') = Len(rows) + 1 /\ ~IsFinite(rows'[Len(rows')][f])) =>
           loNext = lo /\ hiNext = hi

\* C8: throughout the row loop and up to the finalization (before the nudge),
\* for latitude, longitude, altitude and speed the stored min is the least and
\* the stored max the greatest finite value among the samples ingested so
\* far, and both are the +/-1e9 sentinels when there is no finite value; each
\* iteration only lowers a min or raises a max, and a row that is skipped or
\* whose field is not finite leaves that field's pair as it was.  The values
\* are telemetry magnitudes, below the 1e9 of the sentinels.
C8_BoundsTrackFiniteExtremes ==
    /\ [](pc \in {"rows", "finalize"} =>
             /\ TracksExtremes(bounds.latMin, bounds.latMax, FiniteValues("lat"))
             /\ TracksExtremes(bounds.lonMin, bounds.lonMax, FiniteValues("lon"))
             /\ TracksExtremes(range.altMin, range.altMax, FiniteValues("alt"))
             /\ TracksExtremes(range.spdMin, range.spdMax, FiniteValues("spd")))
    /\ [][pc = "rows" =>
             /\ IngestStep(bounds.latMin, bounds.latMax, bounds'.latMin, bounds'.latMax, "lat")
             /\ IngestStep(bounds.lonMin, bounds.lonMax, bounds'.lonMin, bounds'.lonMax, "lon")
             /\ IngestStep(range.altMin, range.altMax, range'.altMin, range'.altMax, "alt")
             /\ IngestStep(range.spdMin, range.spdMax, range'.spdMin, range'.spdMax, "spd")]_vars

\* all rows ingested: a sample without a finite latitude before one with a
\* finite latitude and a greater altitude, and no finite speed at all
C8_Witness ==
    /\ pc = "finalize" /\ Len(rows) = 2
    /\ rows[1].lat = NaN /\ IsFinite(rows[2].lat)
    /\ bounds.latMin = rows[2].lat.v /\ bounds.latMax = rows[2].lat.v
    /\ IsFinite(rows[1].alt) /\ IsFinite(rows[2].alt)
    /\ rows[1].alt.v < rows[2].alt.v
    /\ range.altMin = rows[1].alt.v /\ range.altMax = rows[2].alt.v
    /\ rows[1].spd = NaN /\ rows[2].spd = NaN
    /\ range.spdMin = SENTINEL /\ range.spdMax = 0 - SENTINEL

-----------------------------------------------------------------------------
(* C9 *)

\* the range finalizeAfterRowsParsed leaves for a field whose finite values
\* are S: the sentinels for none, (A, A + 1) for the single value A, the
\* extremes otherwise
NudgedFrom(lo, hi, S) ==
    IF S = {} THEN lo = SENTINEL /\ hi = 0 - SENTINEL
    ELSE IF Cardinality(S) = 1 THEN lo = Least(S) /\ hi = Least(S) + 1
    ELSE lo = Least(S) /\ hi = Greatest(S)

\* C9: whenever no call of parseFromCSVText is running, altMin differs from
\* altMax and spdMin from spdMax; after a call that reached
\* finalizeAfterRowsParsed, a field whose finite values are all the same A has
\* min A and max A + 1, and a range that was not degenerate is as the row loop
\* left it.
C9_DegenerateRangeNudge ==
    /\ pc = "idle" => range.altMin # range.altMax /\ range.spdMin # range.spdMax
    /\ (Returned /\ lines # <<>>) =>
           /\ NudgedFrom(range.altMin, range.altMax, FiniteValues("alt"))
           /\ NudgedFrom(range.spdMin, range.spdMax, FiniteValues("spd"))

\* two samples of altitude 7 and speeds 5 and 8: altitude nudged, speed not
C9_Witness ==
    /\ Returned /\ Len(rows) = 2
    /\ rows[1].alt = Fin(7) /\ rows[2].alt = Fin(7)
    /\ range.altMin = 7 /\ range.altMax = 8
    /\ rows[1].spd = Fin(5) /\ rows[2].spd = Fin(8)
    /\ range.spdMin = 5 /\ range.spdMax = 8

-----------------------------------------------------------------------------
(* C10 *)

\* C10 as claimed: a call of parseFromCSVText that returns with no sample
\* leaves start and end timestamp, takeoff, landing and track direction null
\* and the total flight time and the average in-flight speed at none.
C10_AsClaimed ==
    (Returned /\ rows = <<>>) =>
        /\ startTimestampMs = Null /\ endTimestampMs = Null
        /\ actualTakeOffMs = Null /\ actualLandingMs = Null
        /\ actualTakeOffTime = NullText /\ actualLandingTime = NullText
        /\ trackDir = "null"
        /\ dom.infoFlightTime = Dash
        /\ dom.avgSpeed = Dash

-----------------------------------------------------------------------------
(* What the claims about the finalization speak of *)

\* finalizeAfterRowsParsed has run on the samples of the text and no other
\* call of parseFromCSVText has begun since
Finalized == pc \in {"idle", "drawn"} /\ text # Undefined /\ lines # <<>>

\* the 1-based places of the samples with a finite timestamp and a finite
\* altitude above 0
AirbornePlaces ==
    {i \in 1..Len(rows) :
        /\ IsFinite(rows[i].timestampMs)
        /\ IsFinite(rows[i].alt) /\ rows[i].alt.v > 0}

-----------------------------------------------------------------------------
(* C11 *)

\* C11: after the finalization the takeoff time is the timestamp of the first
\* sample with a finite timestamp and a finite altitude above 0; when there is
\* no such sample, takeoff and landing are null and the total flight time and
\* the average in-flight speed show the dash.
C11_TakeoffIsFirstAirborne ==
    Finalized =>
        IF AirbornePlaces # {}
        THEN /\ actualTakeOffMs = rows[Least(AirbornePlaces)].timestampMs
             /\ actualTakeOffTime = formatUTC(actualTakeOffMs)
        ELSE /\ actualTakeOffMs = Null /\ actualTakeOffTime = NullText
             /\ actualLandingMs = Null /\ actualLandingTime = NullText
             /\ dom.infoFlightTime = Dash
             /\ dom.avgSpeed = Dash

\* the first sample is above the ground without a timestamp, the takeoff is
\* the third, after a timed sample on the ground
C11_Witness ==
    /\ Finalized /\ Len(rows) = 3
    /\ IsFinite(rows[1].alt) /\ rows[1].alt.v > 0 /\ rows[1].timestampMs = NaN
    /\ rows[2].alt = Fin(0) /\ IsFinite(rows[2].timestampMs)
    /\ AirbornePlaces = {3}
    /\ actualTakeOffMs = rows[3].timestampMs

-----------------------------------------------------------------------------
(* C12 *)

\* the 1-based places j after the takeoff where the altitude goes from a
\* finite non-zero value at j - 1 to exactly 0 at j, j having a finite
\* timestamp
TouchdownPlaces ==
    {j \in 2..Len(rows) :
        /\ AirbornePlaces # {} /\ j > Least(AirbornePlaces)
        /\ IsFinite(rows[j - 1].alt) /\ rows[j - 1].alt.v # 0
        /\ IsFinite(rows[j].alt) /\ rows[j].alt.v = 0
        /\ IsFinite(rows[j].timestampMs)}

\* C12: after the finalization of a dataset with a takeoff, the landing time
\* is the timestamp of the first sample after the takeoff that has a finite
\* timestamp and altitude exactly 0 while the sample before it has a finite
\* non-zero altitude; without such a sample landing stays null.  For the
\* altitudes 0,0,150,300,150,0,0 at increasing timestamps the takeoff is
\* sample 2 and the landing sample 5 (0-based).
C12_LandingIsFirstTouchdown ==
    /\ (Finalized /\ AirbornePlaces # {}) =>
           IF TouchdownPlaces # {}
           THEN /\ actualLandingMs = rows[Least(TouchdownPlaces)].timestampMs
                /\ actualLandingTime = formatUTC(actualLandingMs)
           ELSE actualLandingMs = Null /\ actualLandingTime = NullText
    /\ (Finalized /\ text = ExampleFlightText) =>
           /\ [i \in 1..7 |-> rows[i].alt.v] = <<0, 0, 150, 300, 150, 0, 0>>
           /\ Least(AirbornePlaces) = 2 + 1 /\ Least(TouchdownPlaces) = 5 + 1
           /\ actualTakeOffMs = rows[2 + 1].timestampMs
           /\ actualLandingMs = rows[5 + 1].timestampMs
           /\ actualTakeOffMs # actualLandingMs

\* the example flight finalized: landing at the sixth of its seven samples
C12_Witness ==
    /\ Finalized /\ text = ExampleFlightText /\ Len(rows) = 7
    /\ actualTakeOffMs = Fin(3000) /\ actualLandingMs = Fin(6000)

-----------------------------------------------------------------------------
(* C13 *)

\* the 0-based i of the window [iStart, iEnd) whose pair (i, i + 1) has two
\* finite timestamps with a positive difference, two finite altitudes above 0
\* and two finite speeds
ContributingPairs ==
    {i \in AvgStartIdx(rows)..(AvgEndIdx(rows) - 1) :
        /\ i >= 0 /\ i + 2 <= Len(rows)
        /\ IsFinite(rows[i + 1].timestampMs) /\ IsFinite(rows[i + 2].timestampMs)
        /\ rows[i + 2].timestampMs.v - rows[i + 1].timestampMs.v > 0
        /\ IsFinite(rows[i + 1].alt) /\ rows[i + 1].alt.v > 0
        /\ IsFinite(rows[i + 2].alt) /\ rows[i + 2].alt.v > 0
        /\ IsFinite(rows[i + 1].spd) /\ IsFinite(rows[i + 2].spd)}

\* the sum over S of (speed_i + speed_{i+1}) * (ts_{i+1} - ts_i), that is
\* 2000 times the sum of 0.5 * (speed_i + speed_{i+1}) * dt_i
RECURSIVE SpeedTimeSum(_)
SpeedTimeSum(S) ==
    IF S = {} THEN 0
    ELSE LET i == CHOOSE j \in S : TRUE
         IN  (rows[i + 1].spd.v + rows[i + 2].spd.v)
                 * (rows[i + 2].timestampMs.v - rows[i + 1].timestampMs.v)
             + SpeedTimeSum(S \ {i})

\* the sum over S of ts_{i+1} - ts_i, that is 1000 times the sum of dt_i
RECURSIVE TimeSum(_)
TimeSum(S) ==
    IF S = {} THEN 0
    ELSE LET i == CHOOSE j \in S : TRUE
         IN  (rows[i + 2].timestampMs.v - rows[i + 1].timestampMs.v) + TimeSum(S \ {i})

\* the integer nearest to p / q for q > 0, halves upward
RoundedQuotient(p, q) == (2 * p + q) \div (2 * q)

\* C13: after the finalization the average in-flight speed shown is the
\* time-weighted mean of the segment speeds 0.5 * (speed_i + speed_{i+1}),
\* weighted by dt_i, over exactly the contributing pairs of the window,
\* rounded to a whole number of knots; it is the dash when the window is empty
\* or the contributing pairs have no duration.
C13_AverageIsTimeWeightedMean ==
    Finalized =>
        IF ContributingPairs = {} \/ TimeSum(ContributingPairs) = 0
        THEN dom.avgSpeed = Dash
        ELSE LET shown == dom.avgSpeed
             IN  /\ Len(shown) > 3
                 /\ SubSeq(shown, Len(shown) - 2, Len(shown)) = <<" ", "k", "t">>
                 /\ Number(SubSeq(shown, 1, Len(shown) - 3)) =
                        Fin(RoundedQuotient(SpeedTimeSum(ContributingPairs),
                                            2 * TimeSum(ContributingPairs)))

\* speeds 5, 8, 2 at the timestamps 2, 3, 7: (6.5 * 1 + 5 * 4) / 5 = 5.3
C13_Witness ==
    /\ Finalized /\ Len(rows) = 3
    /\ ContributingPairs = {0, 1}
    /\ SpeedTimeSum(ContributingPairs) = 53000 /\ TimeSum(ContributingPairs) = 5000
    /\ dom.avgSpeed = <<"5", " ", "k", "t">>

-----------------------------------------------------------------------------
(* C14 *)

\* the number a text of two decimal digits spells, -1 for any other text
TwoDigits(s) ==
    IF Len(s) = 2 /\ IsDigit(s[1]) /\ IsDigit(s[2])
    THEN 10 * DigitVal(s[1]) + DigitVal(s[2]) ELSE -1

\* the text is HH:MM:SS for the given whole seconds (below 100 hours)
IsClockOf(s, sec) ==
    /\ Len(s) = 8 /\ s[3] = ":" /\ s[6] = ":"
    /\ TwoDigits(SubSeq(s, 1, 2)) = sec \div 3600
    /\ TwoDigits(SubSeq(s, 4, 5)) = (sec % 3600) \div 60
    /\ TwoDigits(SubSeq(s, 7, 8)) = sec % 60

\* C14: after the finalization the total flight time shown is the landing
\* timestamp minus the takeoff timestamp as zero-padded HH:MM:SS of its whole
\* seconds exactly when a takeoff and a landing are detected and the landing
\* timestamp is greater than the takeoff timestamp; otherwise, also with the
\* landing timestamp at or before the takeoff timestamp, it is the dash.
C14_FlightTimeIsClockOfSpan ==
    Finalized =>
        LET detected == AirbornePlaces # {} /\ TouchdownPlaces # {}
            takeoff == rows[Least(AirbornePlaces)].timestampMs.v
            landing == rows[Least(TouchdownPlaces)].timestampMs.v
        IN  IF detected /\ landing > takeoff
            THEN IsClockOf(dom.infoFlightTime, (landing - takeoff) \div 1000)
            ELSE dom.infoFlightTime = Dash

\* takeoff at 2 s and landing at 3727 s: 3725 s is 01:02:05
C14_Witness ==
    /\ Finalized
    /\ actualTakeOffMs = Fin(2000) /\ actualLandingMs = Fin(3727000)
    /\ dom.infoFlightTime = <<"0", "1", ":", "0", "2", ":", "0", "5">>

-----------------------------------------------------------------------------
(* C15 *)

\* the first and the last sample both carry a finite latitude and longitude
EndsArePlaced ==
    /\ Len(rows) >= 2
    /\ IsFinite(rows[1].lat) /\ IsFinite(rows[1].lon)
    /\ IsFinite(rows[Len(rows)].lat) /\ IsFinite(rows[Len(rows)].lon)

\* the longitude delta as the arithmetic remainder gives it, in whole degrees
WrappedDelta == ((rows[Len(rows)].lon.v - rows[1].lon.v + 540) % 360) - 180

\* C15: after the finalization of a dataset of at least two samples whose
\* first and last positions are finite, with dlon = ((lon2-lon1+540) mod 360)
\* - 180 the direction is Unknown when dlon and lat2-lat1 both vanish,
\* Eastbound if lat2 > lat1 else Westbound when only dlon vanishes, and
\* otherwise Eastbound if dlon > 0 else Westbound; with fewer than two
\* samples, or a non-finite coordinate in the first or last one, it is Unknown.
C15_DirectionClassification ==
    Finalized =>
        IF ~EndsArePlaced THEN trackDir = "null"
        ELSE LET dlat == rows[Len(rows)].lat.v - rows[1].lat.v
             IN  IF WrappedDelta = 0 /\ dlat = 0 THEN trackDir = "null"
                 ELSE IF WrappedDelta = 0
                      THEN trackDir = (IF dlat > 0 THEN "E" ELSE "W")
                      ELSE trackDir = (IF WrappedDelta > 0 THEN "E" ELSE "W")

\* a track along one meridian, heading north, is classified by its latitude
C15_Witness ==
    /\ Finalized /\ EndsArePlaced
    /\ rows[1].lon = rows[Len(rows)].lon
    /\ rows[Len(rows)].lat.v > rows[1].lat.v
    /\ trackDir = "E"

-----------------------------------------------------------------------------
(* C16 *)

\* the dataset runs from the one position to the other
RunsBetween(lat1, lon1, lat2, lon2) ==
    /\ Finalized /\ Len(rows) >= 2
    /\ rows[1].lat = Fin(lat1) /\ rows[1].lon = Fin(lon1)
    /\ rows[Len(rows)].lat = Fin(lat2) /\ rows[Len(rows)].lon = Fin(lon2)

\* C16 as stated: from (40, -100) to (40, 170) the longitude delta of the
\* 540/360 formula is greater than 0 and the track is Eastbound; from (0, 10)
\* to (0, 10) the track is Unknown.
C16_AsClaimed ==
    /\ RunsBetween(40, -100, 40, 170) =>
           DlonOf(-100, 170) > 0 /\ trackDir = "E"
    /\ RunsBetween(0, 10, 0, 10) => trackDir = "null"

\* C16: from (40, -100) to (40, 170) the longitude delta of the 540/360
\* formula is -90, the short way across the antimeridian, and the track is
\* Westbound; from (0, 10) to (0, 10) the track is Unknown.
C16_ExampleIsWestbound ==
    /\ RunsBetween(40, -100, 40, 170) =>
           DlonOf(-100, 170) = -90 /\ trackDir = "W"
    /\ RunsBetween(0, 10, 0, 10) => trackDir = "null"

C16_Witness == RunsBetween(40, -100, 40, 170) /\ trackDir = "W"

-----------------------------------------------------------------------------
(* C17 *)

\* a frame has been built from the finalized dataset
Drawn == pc = "drawn"

\* C17 as stated: for every non-empty track of N samples the point sequence
\* has length N+2, its element at index N is the same point as element 0, its
\* element at index N+1 is the same point as element 1 (N = 1 included), and
\* elements 0..N-1 are the points of samples 0..N-1 in order.
C17_AsClaimed ==
    Drawn =>
        LET N == Len(rows)
        IN  /\ Len(pts) = N + 2
            /\ PointAt(pts, N) = PointAt(pts, 0)
            /\ PointAt(pts, N + 1) = PointAt(pts, 1)
            /\ \A i \in 0..(N - 1) :
                   PointAt(pts, i).def /\ PointAt(pts, i).idx = i

-----------------------------------------------------------------------------
(* C18 *)

\* the places (1-based) of the samples with a finite timestamp
TimedPlaces == {i \in 1..Len(rows) : IsFinite(rows[i].timestampMs)}

\* timestamps are whole seconds held in milliseconds; the seconds of one
Seconds(ms) == ms \div 1000

\* the timestamps do not decrease in ingestion order and the last exceeds the first
TimesAscend ==
    /\ TimedPlaces # {}
    /\ \A i, j \in TimedPlaces :
           i < j => rows[i].timestampMs.v <= rows[j].timestampMs.v
    /\ rows[Greatest(TimedPlaces)].timestampMs.v > rows[Least(TimedPlaces)].timestampMs.v

\* the fraction f is the quotient p / q of two millisecond spans, q > 0
IsQuotient(f, p, q) ==
    f.k = "num" /\ Seconds(f.n) * Seconds(q) = Seconds(p) * Seconds(f.d)

\* a <= b for two fractions of millisecond spans
FracLeq(a, b) == Seconds(a.n) * Seconds(b.d) <= Seconds(b.n) * Seconds(a.d)

\* C18: in a frame drawn from a dataset whose finite timestamps do not decrease
\* in ingestion order, with the last greater than the first, every sample with
\* a finite timestamp has the time fraction (ts - first) / (last - first),
\* which lies in [0,1], does not decrease with the index, is 0 for the first
\* and 1 for the last such sample, so these two points lie at the angle of a
\* quarter turn and of a quarter turn plus a whole turn.
C18_TimeFractionSpansTheTurn ==
    (Drawn /\ TimesAscend) =>
        LET first == rows[Least(TimedPlaces)].timestampMs.v
            last == rows[Greatest(TimedPlaces)].timestampMs.v
        IN  /\ \A i \in TimedPlaces :
                   /\ IsQuotient(pts[i].t, rows[i].timestampMs.v - first, last - first)
                   /\ 0 <= pts[i].t.n /\ pts[i].t.n <= pts[i].t.d
            /\ \A i, j \in TimedPlaces : i < j => FracLeq(pts[i].t, pts[j].t)
            /\ pts[Least(TimedPlaces)].t.n = 0
            /\ pts[Greatest(TimedPlaces)].t.n = pts[Greatest(TimedPlaces)].t.d
            /\ 4 * pts[Least(TimedPlaces)].angle.n = pts[Least(TimedPlaces)].angle.d
            /\ 4 * pts[Greatest(TimedPlaces)].angle.n
                   = 5 * pts[Greatest(TimedPlaces)].angle.d

\* three samples at rising times: the middle one lies strictly inside the turn
C18_Witness ==
    /\ Drawn /\ TimesAscend /\ TimedPlaces = {1, 2, 3}
    /\ rows[1].timestampMs.v < rows[2].timestampMs.v
    /\ rows[2].timestampMs.v < rows[3].timestampMs.v
    /\ 0 < pts[2].t.n /\ pts[2].t.n < pts[2].t.d

-----------------------------------------------------------------------------
(* C19 *)

\* C19 as stated: in a frame drawn from any non-empty dataset, a single
\* sample, a span of zero duration, no finite timestamp at all or samples
\* lacking a timestamp included, nothing is divided by zero and the point of
\* every sample has a finite time fraction and a finite angle.
C19_AsClaimed ==
    Drawn =>
        \A i \in 1..Len(rows) :
            /\ pts[i].def
            /\ pts[i].t.k = "num"
            /\ pts[i].angle.k = "num"

-----------------------------------------------------------------------------
(* C20 *)

\* the distance of the sample at place i from the target
\* time first + t * (last - first), times the denominator of t
TargetDistance(i) ==
    LET first == rows[Least(TimedPlaces)].timestampMs.v
        last == rows[Greatest(TimedPlaces)].timestampMs.v
        d == mouseT.d * (rows[i].timestampMs.v - first) - mouseT.n * (last - first)
    IN  IF d < 0 THEN 0 - d ELSE d

\* r is t * (count - 1) rounded to the nearest integer,
\* halves upwards
IsRoundedGuess(r, count) ==
    /\ 2 * mouseT.d * r - mouseT.d <= 2 * mouseT.n * (count - 1)
    /\ 2 * mouseT.n * (count - 1) < 2 * mouseT.d * r + mouseT.d

\* C20: in a frame drawn with the pointer at fraction t of the turn over
\* count >= 1 samples, if some sample has a finite timestamp the selected index
\* has a finite timestamp that minimises |timestamp - (first + t * (last -
\* first))| over all samples, sorted or not, and is the lowest such index; if
\* none has, it is round(t * (count - 1)); in every case it lies in
\* [0, count - 1].
C20_PointerResolvesToNearestTime ==
    Drawn =>
        LET count == Len(rows)
            place == selectedIdx.v + 1
        IN  /\ IsFinite(selectedIdx)
            /\ 0 <= selectedIdx.v /\ selectedIdx.v <= count - 1
            /\ IF TimedPlaces # {}
               THEN /\ place \in TimedPlaces
                    /\ \A j \in TimedPlaces :
                           /\ TargetDistance(place) <= TargetDistance(j)
                           /\ TargetDistance(j) = TargetDistance(place) => place <= j
               ELSE IsRoundedGuess(selectedIdx.v, count)

\* two samples equally near the target time, in a dataset whose timestamps
\* are not sorted: the lower index is the one selected
C20_Witness ==
    /\ Drawn /\ TimedPlaces # {}
    /\ \E j \in TimedPlaces :
           /\ j > selectedIdx.v + 1
           /\ TargetDistance(j) = TargetDistance(selectedIdx.v + 1)
           /\ rows[j].timestampMs # rows[selectedIdx.v + 1].timestampMs
    /\ \E i, j \in TimedPlaces :
           i < j /\ rows[i].timestampMs.v > rows[j].timestampMs.v

-----------------------------------------------------------------------------
(* C26 *)

\* updateTrackDir has been called on trackArgs
TrackCalled == trackOut # <<>>

\* lon2 - lon1 of the call
RawDelta == trackArgs[4].v - trackArgs[2].v

\* the longitude delta the call computes
CallDelta == DlonOf(trackArgs[2].v, trackArgs[4].v)

\* d is lon2 - lon1 up to whole turns and no other such value is smaller
IsShortestDelta(d) ==
    /\ (d - RawDelta) % 360 = 0
    /\ \A k \in -2..2 : Abs(d) <= Abs(RawDelta + 360 * k)

\* C26 as stated: for longitudes in [-180, 180] the delta is congruent to
\* lon2 - lon1 modulo 360, is the shortest signed delta and lies in
\* (-180, 180], an exact half-turn difference yielding +180.
C26_AsClaimed ==
    TrackCalled =>
        /\ IsShortestDelta(CallDelta)
        /\ -180 < CallDelta /\ CallDelta <= 180
        /\ Abs(RawDelta) = 180 => CallDelta = 180

\* C26: for longitudes in [-180, 180] the delta is congruent to lon2 - lon1
\* modulo 360, is a shortest signed delta and lies in [-180, 180): an exact
\* half-turn difference, in either sense, yields -180.
C26_DeltaIsShortestFromMinus180 ==
    TrackCalled =>
        /\ IsShortestDelta(CallDelta)
        /\ -180 <= CallDelta /\ CallDelta < 180
        /\ Abs(RawDelta) = 180 => CallDelta = -180

\* a half turn eastwards on the numbers, 0 to 180, and one across the
\* antimeridian
C26_Witness ==
    /\ TrackCalled
    /\ \/ trackArgs[2] = Fin(0) /\ trackArgs[4] = Fin(180) /\ CallDelta = -180
       \/ trackArgs[2] = Fin(179) /\ trackArgs[4] = Fin(-179) /\ CallDelta = 2

-----------------------------------------------------------------------------
(* C29 *)

\* updateTrackDir has been called on the two positions in both orders
TrackCalledBothWays == Len(trackOut) = 2

\* the two results are both Unknown, or one is Eastbound and the other Westbound
Opposite(a, b) ==
    \/ a = "null" /\ b = "null"
    \/ a = "E" /\ b = "W"
    \/ a = "W" /\ b = "E"

\* C29 as stated: for two finite positions with longitudes in [-180, 180] the
\* direction from p to q is Unknown exactly when the direction from q to p
\* is, and otherwise the two are opposite.
C29_AsClaimed ==
    TrackCalledBothWays => Opposite(trackOut[1], trackOut[2])

\* C29: for two finite positions with longitudes in [-180, 180] that are not
\* an exact half turn apart, the direction from p to q is Unknown exactly when
\* the direction from q to p is, and otherwise the two are opposite; for
\* longitudes an exact half turn apart both directions are Westbound.
C29_OppositeUnlessHalfTurn ==
    TrackCalledBothWays =>
        IF Abs(RawDelta) = 180
        THEN trackOut[1] = "W" /\ trackOut[2] = "W"
        ELSE Opposite(trackOut[1], trackOut[2])

\* along one meridian the latitude decides, one way and the other
C29_Witness ==
    /\ TrackCalledBothWays
    /\ RawDelta = 0 /\ trackArgs[3].v > trackArgs[1].v
    /\ trackOut = <<"E", "W">>

-----------------------------------------------------------------------------
(* C22 *)

\* speedColor of sketch2.js has returned
ColourReturned == speedOut # <<>>

\* the six bands as the claim lists them, in knots; the last has no upper end
ClaimedBands == << <<0, 40>>, <<40, 160>>, <<160, 300>>, <<300, 420>>, <<420, 520>>, <<520>> >>

\* the speed, in 1/SpeedUnit knots, lies in the i-th listed band
InClaimedBand(s, i) ==
    /\ ClaimedBands[i][1] * SpeedUnit <= s
    /\ Len(ClaimedBands[i]) = 2 => s < ClaimedBands[i][2] * SpeedUnit

\* the speed is at least SMOOTH_KT knots away from every end of the i-th band
\* that a neighbouring band shares
AwayFromSharedEdges(s, i) ==
    /\ i > 1 => s - ClaimedBands[i][1] * SpeedUnit >= SMOOTH_KT * SpeedUnit
    /\ i < Len(ClaimedBands) =>
           ClaimedBands[i][2] * SpeedUnit - s >= SMOOTH_KT * SpeedUnit

\* the red, green and blue of a returned colour
RgbOf(col) == <<col.r, col.g, col.b>>

\* C22: the bands are [0,40), [40,160), [160,300), [300,420), [420,520) and
\* [520,+inf), ordered and contiguous; every finite speed >= 0 falls in exactly
\* one of them; a speed at least 15 knots away from every boundary its band
\* shares with a neighbour gets exactly that band's base colour; a non-finite
\* speed gets the last band's colour.
C22_BandSelection ==
    /\ Len(SPEED_BANDS) = Len(ClaimedBands)
    /\ \A i \in 1..Len(SPEED_BANDS) :
           /\ SPEED_BANDS[i].min = ClaimedBands[i][1]
           /\ SPEED_BANDS[i].open = (Len(ClaimedBands[i]) = 1)
           /\ ~SPEED_BANDS[i].open =>
                  /\ SPEED_BANDS[i].max = ClaimedBands[i][2]
                  /\ SPEED_BANDS[i].min < SPEED_BANDS[i].max
                  /\ SPEED_BANDS[i].max = SPEED_BANDS[i + 1].min
    /\ ColourReturned =>
           IF IsFinite(speedArg)
           THEN speedArg.v >= 0 =>
                    /\ Cardinality({i \in 1..Len(ClaimedBands) :
                                        InClaimedBand(speedArg.v, i)}) = 1
                    /\ \A i \in 1..Len(ClaimedBands) :
                           InClaimedBand(speedArg.v, i) =>
                               /\ BandIndex(speedArg) = i
                               /\ AwayFromSharedEdges(speedArg.v, i) =>
                                      RgbOf(speedOut[1]) = SPEED_BANDS[i].color
           ELSE RgbOf(speedOut[1]) = SPEED_BANDS[Len(SPEED_BANDS)].color

\* 55 knots, exactly 15 knots above the boundary at 40: plain orange
C22_Witness ==
    /\ ColourReturned
    /\ speedArg = Fin(55 * SpeedUnit)
    /\ RgbOf(speedOut[1]) = <<255, 146, 48>>

-----------------------------------------------------------------------------
(* C23 *)

\* both versions of speedColor have returned
BothColoursReturned == Len(speedOut) = 2

\* the speed given is the last one below an internal boundary
JustBelowBreak ==
    /\ IsFinite(speedArg)
    /\ \E b \in InnerBreaks : speedArg.v = b * SpeedUnit - 1

\* the first speed above that boundary
JustAbove == Fin(speedArg.v + 2)

\* the two colours differ, in every channel, by no more than one rounding
\* step and the 1/SMOOTH_KT part of the difference between the colours of the
\* bands below and above the speed's boundary
WithinOneStep(colBelow, colAbove) ==
    LET lo == SPEED_BANDS[BandIndex(speedArg)].color
        hi == SPEED_BANDS[BandIndex(JustAbove)].color
    IN  \A ch \in 1..3 :
            SMOOTH_KT * Abs(RgbOf(colBelow)[ch] - RgbOf(colAbove)[ch])
                <= Abs(hi[ch] - lo[ch]) + SMOOTH_KT

\* the version of sketch2.js is continuous across the boundary
ContinuousInSketch2 ==
    (ColourReturned /\ JustBelowBreak) =>
        WithinOneStep(speedOut[1], speedColor(JustAbove))

\* C23 as stated: in each version of speedColor, sketch2.js and
\* unnamed/part_000, at every internal band boundary the colour returned just
\* below and the colour returned just above differ per channel by a small
\* bounded amount, never by a jump comparable to the full difference between
\* the adjacent band colours.
C23_AsClaimed ==
    (BothColoursReturned /\ JustBelowBreak) =>
        /\ WithinOneStep(speedOut[1], speedColor(JustAbove))
        /\ WithinOneStep(speedOut[2], speedColorPart000(JustAbove))

-----------------------------------------------------------------------------
(* C25 *)

\* the pair of the samples i and i + 1 (from 0) can be averaged: two finite
\* timestamps a positive time apart, two finite altitudes above 0, two finite
\* speeds
PairQualifies(i) ==
    /\ i >= 0 /\ i + 2 <= Len(rows)
    /\ IsFinite(rows[i + 1].timestampMs) /\ IsFinite(rows[i + 2].timestampMs)
    /\ rows[i + 2].timestampMs.v > rows[i + 1].timestampMs.v
    /\ IsFinite(rows[i + 1].alt) /\ rows[i + 1].alt.v > 0
    /\ IsFinite(rows[i + 2].alt) /\ rows[i + 2].alt.v > 0
    /\ IsFinite(rows[i + 1].spd) /\ IsFinite(rows[i + 2].spd)

\* the starts (from 0) of the pairs of the window as claimed, for a dataset
\* with a takeoff: from the takeoff index up to the landing index, or without
\* a landing up to the last sample with a finite timestamp
ClaimedWindow ==
    LET takeoffIndex == Least(AirbornePlaces) - 1
        endIndex == IF TouchdownPlaces # {} THEN Least(TouchdownPlaces) - 1
                    ELSE Greatest(TimedPlaces) - 1
    IN  takeoffIndex..(endIndex - 1)

\* the average shown is the rounded time-weighted mean over the pairs S, the
\* dash when S is empty
ShowsMeanOver(S) ==
    IF S = {} THEN dom.avgSpeed = Dash
    ELSE LET shown == dom.avgSpeed
         IN  /\ Len(shown) > 3
             /\ Number(SubSeq(shown, 1, Len(shown) - 3)) =
                    Fin(RoundedQuotient(SpeedTimeSum(S), 2 * TimeSum(S)))

\* C25: after the finalization of a dataset with a takeoff, the average shown
\* is taken over the pairs of [takeoffIndex, landingIndex) when a landing is
\* detected, and of takeoffIndex up to the last sample with a finite timestamp
\* when none is; no pair starting at or after the landing index and no pair
\* before the takeoff index contributes.
C25_AveragingWindow ==
    (Finalized /\ AirbornePlaces # {}) =>
        ShowsMeanOver({i \in ClaimedWindow : PairQualifies(i)})

\* the touch-and-go: the pair of the samples 3 and 4 qualifies but starts
\* after the landing index 2; the average is that of the pair 0 alone, 6.5
C25_Witness ==
    /\ Finalized /\ text = TouchAndGoText
    /\ PairQualifies(3) /\ ClaimedWindow = {0, 1}
    /\ dom.avgSpeed = <<"7", " ", "k", "t">>

-----------------------------------------------------------------------------
(* C28 *)

\* the stored derived values and the derived display fields after a call
Outcome ==
    [start |-> startTimestampMs, end |-> endTimestampMs,
     takeoff |-> actualTakeOffTime, landing |-> actualLandingTime,
     direction |-> trackDir,
     takeoffShown |-> dom.takeoffActual, landingShown |-> dom.landingActual,
     flightTime |-> dom.infoFlightTime, average |-> dom.avgSpeed,
     callsign |-> dom.infoCallsign]

\* what a call leaves when its text is the first one the page is given and has
\* no line: everything as the page was loaded
OutcomeOfNoLines ==
    [start |-> Null, end |-> Null, takeoff |-> NullText, landing |-> NullText,
     direction |-> "null",
     takeoffShown |-> Dash, landingShown |-> Dash,
     flightTime |-> Dash, average |-> Dash, callsign |-> Dash]

\* what a call leaves when its text is the first one the page is given and has
\* a header: the values of the samples of the text
OutcomeOfSamples ==
    LET timed == {i \in 1..Len(rows) : IsFinite(rows[i].timestampMs)}
        takeoff == IF AirbornePlaces = {} THEN Null
                   ELSE rows[Least(AirbornePlaces)].timestampMs
        landing == IF TouchdownPlaces = {} THEN Null
                   ELSE rows[Least(TouchdownPlaces)].timestampMs
    IN  [start |-> IF timed = {} THEN Null ELSE rows[Least(timed)].timestampMs,
         end |-> IF timed = {} THEN Null ELSE rows[Greatest(timed)].timestampMs,
         takeoff |-> IF takeoff = Null THEN NullText ELSE formatUTC(takeoff),
         landing |-> IF landing = Null THEN NullText ELSE formatUTC(landing),
         direction |-> IF Len(rows) >= 2
                       THEN TrackDirOf(rows[1].lat, rows[1].lon,
                                       rows[Len(rows)].lat, rows[Len(rows)].lon)
                       ELSE "null",
         takeoffShown |-> IF takeoff = Null THEN Dash ELSE formatUTC(takeoff),
         landingShown |-> IF landing = Null THEN Dash ELSE formatUTC(landing),
         flightTime |-> FlightTimeText(takeoff, landing),
         average |-> AvgSpeedText(rows),
         callsign |-> IF callsignVal = <<>> THEN Dash ELSE callsignVal]

\* a text with a header leaves the values of its own samples, whatever was
\* loaded before
SamplesDecideOutcome == (Returned /\ lines # <<>>) => Outcome = OutcomeOfSamples

\* C28 as stated: after parseFromCSVText(text) completes, start and end
\* timestamp, takeoff and landing time, total flight time, average in-flight
\* speed, track direction and callsign depend only on text: whatever was
\* loaded before, they are what the same text leaves on a freshly loaded page,
\* an empty or all-blank text included.
C28_AsClaimed ==
    Returned =>
        Outcome = (IF lines = <<>> THEN OutcomeOfNoLines ELSE OutcomeOfSamples)

-----------------------------------------------------------------------------
(* C24 *)

\* a frame can start, or has just been drawn: the state a draw observes
Observable == pc \in {"idle", "drawn"}

\* the samples, bounds, range, start and end, flight phase and direction are
\* all those of the file whose text the last call was given
WholeStateOfText ==
    /\ text # Undefined
    /\ lines = SelectSeq(SplitLines(text), IsNonBlank) /\ lines # <<>>
    /\ idx = ResolveHeader(lines[1])
    /\ Len(rows) = Len(KeptLines)
    /\ \A k \in 1..Len(rows) : rows[k] = SampleOf(splitCSVLine(KeptLines[k]), idx)
    /\ TracksExtremes(bounds.latMin, bounds.latMax, FiniteValues("lat"))
    /\ TracksExtremes(bounds.lonMin, bounds.lonMax, FiniteValues("lon"))
    /\ NudgedFrom(range.altMin, range.altMax, FiniteValues("alt"))
    /\ NudgedFrom(range.spdMin, range.spdMax, FiniteValues("spd"))
    /\ startTimestampMs = OutcomeOfSamples.start
    /\ endTimestampMs = OutcomeOfSamples.end
    /\ actualTakeOffMs = (IF AirbornePlaces = {} THEN Null
                          ELSE rows[Least(AirbornePlaces)].timestampMs)
    /\ actualLandingMs = (IF TouchdownPlaces = {} THEN Null
                          ELSE rows[Least(TouchdownPlaces)].timestampMs)
    /\ actualTakeOffTime = OutcomeOfSamples.takeoff
    /\ actualLandingTime = OutcomeOfSamples.landing
    /\ trackDir = OutcomeOfSamples.direction

\* C24: with file-read completions and frame draws as the only events, also
\* when several reads are pending and complete in any order, every state a
\* draw observes is either the empty state or the complete finalized state of
\* one uploaded file, never a partially reset or partially repopulated one.
C24_FramesSeeWholeDatasets ==
    Observable => (HoldersAreReset \/ WholeStateOfText)

\* both reads have completed and a frame shows the samples of the later one
C24_Witness ==
    /\ Drawn /\ pending = {}
    /\ rows # <<>> /\ WholeStateOfText

-----------------------------------------------------------------------------
(* C27  the selected index of a drawn frame                                  *)

\* what drawRosette looks up with selectedIdx exists: rows[selectedIdx],
\* pts[selectedIdx]
IndexInRange ==
    /\ IsFinite(selectedIdx)
    /\ 0 <= selectedIdx.v
    /\ selectedIdx.v <= Len(rows) - 1

\* the same, for the frames that follow the pointer
FollowingFramesInRange == Drawn /\ cursorFollowMouse => IndexInRange

\* C27: after any sequence of uploads, resets, Space toggles, arrow keys and
\* I/O keys, whenever a frame is drawn with a non-empty dataset the selected
\* index is an integer in [0, sampleCount - 1].
C27_AsClaimed == Drawn => IndexInRange

-----------------------------------------------------------------------------
(* C30  pausing the cursor and stepping it with the arrow keys               *)

\* a step that draws a frame of a dataset
FrameStep == pc = "idle" /\ pc' = "drawn"

\* the step keeps the selected index
KeepsIndex == selectedIdx' = selectedIdx

\* the frame just drawn selected the index its pointer resolves to
FrameResolvedPointer == C20_PointerResolvesToNearestTime'

\* a step that runs keyPressed for an arrow key
ArrowStep == pc = "keyPressed" /\ pc' = "idle" /\ key \in ArrowKeys

\* the arrow key stepped the index by its delta, wrapping around both ends
Stepped ==
    LET n == Len(rows)
    IN  /\ IsFinite(selectedIdx')
        /\ IsFinite(selectedIdx)
        /\ selectedIdx'.v = (selectedIdx.v + ArrowDelta(key)) % n
        /\ 0 <= selectedIdx'.v /\ selectedIdx'.v <= n - 1

\* everything but the stepping: paused frames keep the index, arrows do
\* nothing while the pointer is followed, following frames resolve the pointer
PauseAndFollow ==
    /\ FrameStep /\ ~cursorFollowMouse => KeepsIndex
    /\ FrameStep /\ cursorFollowMouse => FrameResolvedPointer
    /\ ArrowStep /\ cursorFollowMouse => KeepsIndex

\* the stepping holds from every selected index that is a number, in range or
\* not
SteppingFromANumber ==
    [][/\ PauseAndFollow
       /\ ArrowStep /\ ~cursorFollowMouse /\ rows # <<>> /\ IsFinite(selectedIdx)
          => Stepped]_vars

\* C30: while follow-mouse is off a drawn frame leaves the selected index
\* unchanged and, with n >= 1 samples, an arrow key sets it to (selectedIdx +
\* delta) mod n in [0, n - 1], delta = +1/-1/+10/-10; while follow-mouse is on
\* arrow keys leave it unchanged and each drawn frame sets it to the
\* pointer-resolved index.
C30_AsClaimed ==
    [][/\ PauseAndFollow
       /\ ArrowStep /\ ~cursorFollowMouse /\ rows # <<>> => Stepped]_vars

-----------------------------------------------------------------------------
(* C21  from a sample's time fraction to its angle and back                  *)

\* a frame drawn with the pointer on the point of sample mouseOver
DrawnOverSample == Drawn /\ mouseOver >= 0

\* the time fraction of that sample
OwnFraction == pts[mouseOver + 1].t

\* the fractions a and b are equal
FracSame(a, b) == a.k = "num" /\ b.k = "num" /\ a.n * b.d = b.n * a.d

\* the fractions a and b differ by a whole number of turns
FracSameTurn(a, b) ==
    a.k = "num" /\ b.k = "num" /\ (a.n * b.d - b.n * a.d) % (a.d * b.d) = 0

\* the sample under the pointer is nearer the recovered target time than
\* every other sample
OwnIsClosest ==
    \A j \in TimedPlaces \ {mouseOver + 1} :
        TargetDistance(mouseOver + 1) < TargetDistance(j)

\* the resolver, when the frame runs it, returns the sample's own index if it
\* is the closest
ResolvesToOwn ==
    cursorFollowMouse /\ OwnIsClosest => selectedIdx = Fin(mouseOver)

\* C21 as stated: the inversion of the forward angle recovers t itself.
C21_AsClaimed ==
    DrawnOverSample => FracSame(mouseT, OwnFraction) /\ ResolvesToOwn

\* C21: for every sample with a finite time fraction t, inverting its forward
\* angle (a quarter turn plus t turns) in the pointer resolver recovers t
\* modulo one turn, a value in [0,1) (t itself for 0 <= t < 1, 0 for t = 1),
\* and the resolver then returns that sample's own index whenever that sample
\* is the closest one in time to the recovered target time.
C21_RoundTripModuloOneTurn ==
    DrawnOverSample =>
        /\ FracSameTurn(mouseT, OwnFraction)
        /\ 0 <= mouseT.n /\ mouseT.n < mouseT.d
        /\ 0 <= OwnFraction.n /\ OwnFraction.n < OwnFraction.d
               => FracSame(mouseT, OwnFraction)
        /\ OwnFraction.n = OwnFraction.d => mouseT.n = 0
        /\ ResolvesToOwn

\* a sample strictly inside the turn: its fraction comes back and it is the
\* one selected
C21_Witness ==
    /\ DrawnOverSample /\ cursorFollowMouse
    /\ 0 < OwnFraction.n /\ OwnFraction.n < OwnFraction.d
    /\ FracSame(mouseT, OwnFraction)
    /\ OwnIsClosest
    /\ selectedIdx = Fin(mouseOver)

\* the last sample of a sorted dataset, and a sample of an unsorted one whose
\* fraction exceeds 1: the fraction that comes back is another one
RecoversAnotherFraction ==
    /\ DrawnOverSample
    /\ OwnFraction.n >= OwnFraction.d
    /\ ~FracSame(mouseT, OwnFraction)

=============================================================================
